---- MODULE Spec2Model ----
(***************************************************************************)
(* A model of the FDA catalyst tracker's merge/dedup engine (the five      *)
(* update_database functions), its entity matcher and its date handling.   *)
(*                                                                         *)
(* Python values are modelled as follows.                                  *)
(*   str   a sequence of code points, "2024" = <<50, 48, 50, 52>>          *)
(*   None  the one-element sequence <<-1>>, equal to no string             *)
(*   dict  a record whose DOMAIN is the set of keys that are present       *)
(*   list  a sequence                                                      *)
(***************************************************************************)
EXTENDS Integers, Sequences, FiniteSets, TLC

VARIABLES
    data_json,      \* the file data/data.json: [exists, text, events], see JsonFile
    found,          \* what the last update_database call found the file to be
    raised,         \* the exception the last update_database call raised, or "none"
    loaded,         \* the list the last update_database call read from the file
    new_events,     \* the argument of the last update_database call
    accepted,       \* the indices of new_events it appended, in order
    added_count,    \* its local counter
    scraper,        \* the module whose update_database ran last
    calls,          \* the number of update_database calls so far
    target_companies,   \* the company universe given to the matchers
    raw_events,         \* the argument of historical match_companies
    matched,            \* its result
    rss_entry,          \* one feed entry of tracker scan_rss_feeds: [title, summary]
    detected_company,   \* the company scan_rss_feeds found for it, or None
    extracted_date,     \* the date scan_rss_feeds extracted from its text, or None
    rss_events,         \* the events scan_rss_feeds made of it
    filings,            \* the filings sec_edgar search_sec_filings goes through
    pdufa_date,         \* the result of extract_pdufa_date on the text of filings[1]
    sec_events,         \* the result of search_sec_filings
    sources,            \* what the sources of tracker main answer: [pdufa, fedreg, openfda, feeds]
    main_events,        \* the locals pdufa_events, fda_events, openfda_events, rss_events of main
    main_raised,        \* the exception that ended tracker main, or "none"
    runs,               \* the update_database calls that run at the same time:
                        \* [name, batch, pc, existing_data, accepted] each
    studies,            \* the studies given to clinicaltrials extract_trial_events
    now,                \* datetime.now(): [y, m, d, tod], tod in seconds since midnight
    trial_events,       \* the result of extract_trial_events
    trial_sources,      \* for each event of the result, the position of its study
    label_data,         \* the label given to label_scraper extract_label_events
    label_events,       \* the list it returned
    label_raised,       \* the exception that left it, or "none"
    done                \* the functions that have run on the inputs above

storeVars == <<data_json, found, raised, loaded, new_events, accepted, added_count, scraper, calls>>
matchVars == <<target_companies, raw_events, matched, rss_entry, detected_company,
               extracted_date, rss_events>>

secVars == <<filings, pdufa_date, sec_events>>

trialVars == <<studies, now, trial_events, trial_sources>>

\* the variables the functions of the first sections leave alone
mainVars == <<sources, main_events, main_raised>>

labelVars == <<label_data, label_events, label_raised>>

extraVars == <<secVars, mainVars, runs, labelVars>>

vars == <<storeVars, matchVars, trialVars, extraVars, done>>

(***************************************************************************)
(* Bounds of the model.                                                    *)
(***************************************************************************)
MaxStore == 2       \* events in the data.json the first call finds
MaxBatch == 2       \* events in one argument of update_database
MaxCalls == 2       \* update_database calls in one behaviour
MaxUniverse == 2    \* companies in the universe
MaxRaw == 2         \* raw events in one argument of match_companies
MaxStudies == 2     \* studies in one argument of extract_trial_events
MaxFilings == 1     \* filings search_sec_filings goes through

(***************************************************************************)
(* Python primitives.                                                      *)
(***************************************************************************)
None == <<-1>>

\* bool(v) of a str or None
Truthy(v) == v # None /\ v # <<>>

\* a < b on str: code point order, a proper prefix is smaller
StrLess(a, b) ==
    \E i \in 1..Len(b) :
        /\ i <= Len(a) + 1
        /\ \A j \in 1..(i - 1) : a[j] = b[j]
        /\ (i = Len(a) + 1 \/ a[i] < b[i])

\* a >= b on str
StrGeq(a, b) == ~StrLess(a, b)

\* d.get(k, default)
Get(d, k, default) == IF k \in DOMAIN d THEN d[k] ELSE default

\* s[:n]
Slice(s, n) == IF Len(s) <= n THEN s ELSE SubSeq(s, 1, n)

\* the characters str.split() and str.strip() treat as white space (ASCII)
Whitespace == {9, 10, 11, 12, 13, 28, 29, 30, 31, 32}

\* s.lower() on ASCII letters
Lower(s) == [i \in 1..Len(s) |-> IF s[i] \in 65..90 THEN s[i] + 32 ELSE s[i]]

\* s.split(): the maximal runs of characters that are not white space
RECURSIVE SplitFrom(_, _, _, _)
SplitFrom(s, i, word, words) ==
    IF i > Len(s) THEN (IF word = <<>> THEN words ELSE Append(words, word))
    ELSE IF s[i] \in Whitespace
         THEN SplitFrom(s, i + 1, <<>>, IF word = <<>> THEN words ELSE Append(words, word))
         ELSE SplitFrom(s, i + 1, Append(word, s[i]), words)

Split(s) == SplitFrom(s, 1, <<>>, <<>>)

\* w in t
Contains(t, w) ==
    \E k \in 0..(Len(t) - Len(w)) : \A j \in 1..Len(w) : t[k + j] = w[j]

(***************************************************************************)
(* datetime: a date is a record [y, m, d].                                 *)
(***************************************************************************)
IsDigit(c) == c \in 48..57

AllDigits(s) == \A i \in 1..Len(s) : IsDigit(s[i])

\* int(s) of a string of digits
RECURSIVE Num(_)
Num(s) == IF s = <<>> THEN 0 ELSE 10 * Num(SubSeq(s, 1, Len(s) - 1)) + (s[Len(s)] - 48)

\* '%02d' and the four-digit '%Y' of a year from 1000 to 9999
Fmt2(n) == <<48 + (n \div 10), 48 + (n % 10)>>
Fmt4(n) == <<48 + (n \div 1000), 48 + ((n \div 100) % 10), 48 + ((n \div 10) % 10),
             48 + (n % 10)>>

IsLeap(y) == (y % 4 = 0 /\ y % 100 # 0) \/ y % 400 = 0

\* calendar.monthrange(y, m)[1]
DaysInMonth(y, m) ==
    IF m = 2 THEN (IF IsLeap(y) THEN 29 ELSE 28)
    ELSE IF m \in {4, 6, 9, 11} THEN 30 ELSE 31

\* the day number of a date (days since 1970-01-01): what datetime compares
DayNumber(y, m, d) ==
    LET yy == IF m <= 2 THEN y - 1 ELSE y
        era == yy \div 400
        yoe == yy - era * 400
        mp == IF m > 2 THEN m - 3 ELSE m + 9
        doy == ((153 * mp + 2) \div 5) + d - 1
        doe == yoe * 365 + (yoe \div 4) - (yoe \div 100) + doy
    IN era * 146097 + doe - 719468

\* the directive %m of strptime: 1[0-2]|0[1-9]|[1-9]
IsMonthToken(t) ==
    \/ Len(t) = 2 /\ t[1] = 49 /\ t[2] \in 48..50
    \/ Len(t) = 2 /\ t[1] = 48 /\ t[2] \in 49..57
    \/ Len(t) = 1 /\ t[1] \in 49..57

\* the directive %d of strptime: 3[01]|[12]\d|0[1-9]|[1-9]| [1-9]
IsDayToken(t) ==
    \/ Len(t) = 2 /\ t[1] = 51 /\ t[2] \in 48..49
    \/ Len(t) = 2 /\ t[1] \in 49..50 /\ IsDigit(t[2])
    \/ Len(t) = 2 /\ t[1] \in {48, 32} /\ t[2] \in 49..57
    \/ Len(t) = 1 /\ t[1] \in 49..57

\* the value of a %m or %d token
TokenVal(t) == IF t[1] = 32 THEN t[2] - 48 ELSE Num(t)

NoDate == [ok |-> FALSE, y |-> 0, m |-> 0, d |-> 0]

\* datetime.strptime(s, '%Y-%m'): the whole string must match, the year is >= 1
strptime_Ym(s) ==
    IF /\ Len(s) \in 6..7
       /\ AllDigits(SubSeq(s, 1, 4)) /\ s[5] = 45
       /\ IsMonthToken(SubSeq(s, 6, Len(s)))
       /\ Num(SubSeq(s, 1, 4)) >= 1
    THEN [ok |-> TRUE, y |-> Num(SubSeq(s, 1, 4)), m |-> TokenVal(SubSeq(s, 6, Len(s))),
          d |-> 1]
    ELSE NoDate

\* datetime.strptime(s, '%Y-%m-%d'): ml and dl are the lengths of the month
\* and the day token
strptime_Ymd(s) ==
    LET fits(ml, dl) ==
            /\ Len(s) = 6 + ml + dl
            /\ AllDigits(SubSeq(s, 1, 4)) /\ s[5] = 45
            /\ IsMonthToken(SubSeq(s, 6, 5 + ml))
            /\ s[6 + ml] = 45
            /\ IsDayToken(SubSeq(s, 7 + ml, 6 + ml + dl))
            /\ Num(SubSeq(s, 1, 4)) >= 1
            /\ TokenVal(SubSeq(s, 7 + ml, 6 + ml + dl))
                   <= DaysInMonth(Num(SubSeq(s, 1, 4)), TokenVal(SubSeq(s, 6, 5 + ml)))
        splits == {p \in {1, 2} \X {1, 2} : fits(p[1], p[2])}
    IN IF splits = {} THEN NoDate
       ELSE LET p == CHOOSE q \in splits : TRUE
            IN [ok |-> TRUE, y |-> Num(SubSeq(s, 1, 4)),
                m |-> TokenVal(SubSeq(s, 6, 5 + p[1])),
                d |-> TokenVal(SubSeq(s, 7 + p[1], 6 + p[1] + p[2]))]

(***************************************************************************)
(* re: a pattern is a tree of nodes.  Ends gives the positions at which a  *)
(* match of a node that starts at pos can end, in the order in which the   *)
(* backtracking matcher of re tries them (first alternative first, longest *)
(* repetition first).  ic is re.IGNORECASE.                                *)
(***************************************************************************)
\* a literal string
Lit(s) == [t |-> "lit", s |-> s]
\* one character of a set: \s, \d, [A-Z], [1-4], ...
OneOf(S) == [t |-> "set", s |-> S]
\* r1 r2 ... rn
Cat(r) == [t |-> "seq", r |-> r]
\* r1|r2|...|rn
Alt(r) == [t |-> "alt", r |-> r]
\* r{lo,hi}, greedy; hi = -1 is no upper limit
Rep(r, lo, hi) == [t |-> "rep", r |-> r, lo |-> lo, hi |-> hi]

\* r?, r*, r+
Opt(r) == Rep(r, 0, 1)
Star(r) == Rep(r, 0, -1)
Plus(r) == Rep(r, 1, -1)

\* \s, \d, [A-Z], [a-z]
ReSpace == OneOf(Whitespace)
ReDigit == OneOf(48..57)
ReUpper == OneOf(65..90)
ReLower == OneOf(97..122)

\* the other case of an ASCII letter
SwapCase(c) == IF c \in 65..90 THEN c + 32 ELSE IF c \in 97..122 THEN c - 32 ELSE c

\* the literal w stands in s after pos characters
LitAt(w, s, pos, ic) ==
    /\ pos + Len(w) <= Len(s)
    /\ \A j \in 1..Len(w) :
           s[pos + j] = w[j] \/ (ic /\ SwapCase(s[pos + j]) = w[j])

RECURSIVE Ends(_, _, _, _), EndsCat(_, _, _, _, _), EndsCatFrom(_, _, _, _, _, _),
          EndsAlt(_, _, _, _, _), EndsRep(_, _, _, _, _, _),
          EndsRepFrom(_, _, _, _, _, _, _)
Ends(node, s, pos, ic) ==
    CASE node.t = "lit" ->
             IF LitAt(node.s, s, pos, ic) THEN <<pos + Len(node.s)>> ELSE <<>>
      [] node.t = "set" ->
             IF pos < Len(s)
                /\ (s[pos + 1] \in node.s \/ (ic /\ SwapCase(s[pos + 1]) \in node.s))
             THEN <<pos + 1>> ELSE <<>>
      [] node.t = "seq" -> EndsCat(node.r, 1, s, pos, ic)
      [] node.t = "alt" -> EndsAlt(node.r, 1, s, pos, ic)
      [] node.t = "rep" -> EndsRep(node.r, node.lo, node.hi, s, pos, ic)

\* the ends of r[i] r[i+1] ... from pos
EndsCat(r, i, s, pos, ic) ==
    IF i > Len(r) THEN <<pos>>
    ELSE EndsCatFrom(r, i, s, Ends(r[i], s, pos, ic), 1, ic)

\* the ends of r[i+1] ... from each of the ends first[k], first[k+1], ... of r[i]
EndsCatFrom(r, i, s, first, k, ic) ==
    IF k > Len(first) THEN <<>>
    ELSE EndsCat(r, i + 1, s, first[k], ic) \o EndsCatFrom(r, i, s, first, k + 1, ic)

\* the ends of r[i]|r[i+1]|... from pos
EndsAlt(r, i, s, pos, ic) ==
    IF i > Len(r) THEN <<>>
    ELSE Ends(r[i], s, pos, ic) \o EndsAlt(r, i + 1, s, pos, ic)

\* one more repetition first, then none
EndsRep(node, lo, hi, s, pos, ic) ==
    LET once == IF hi = 0 THEN <<>>
                ELSE SelectSeq(Ends(node, s, pos, ic), LAMBDA e : e > pos)
    IN EndsRepFrom(node, lo, hi, s, once, 1, ic)
           \o (IF lo <= 0 THEN <<pos>> ELSE <<>>)

EndsRepFrom(node, lo, hi, s, once, k, ic) ==
    IF k > Len(once) THEN <<>>
    ELSE EndsRep(node, IF lo > 0 THEN lo - 1 ELSE 0, IF hi > 0 THEN hi - 1 ELSE hi,
                 s, once[k], ic)
             \o EndsRepFrom(node, lo, hi, s, once, k + 1, ic)

\* the first way, in the matcher's order, to match the parts r[i], r[i+1], ...
\* one after the other from pos: the end of each part; <<>> if there is none
RECURSIVE FirstPath(_, _, _, _, _), FirstPathFrom(_, _, _, _, _, _),
          FirstPathRest(_, _, _, _, _, _, _)
FirstPath(r, i, s, pos, ic) ==
    IF i > Len(r) THEN <<pos>>
    ELSE FirstPathFrom(r, i, s, Ends(r[i], s, pos, ic), 1, ic)

FirstPathFrom(r, i, s, ends, k, ic) ==
    IF k > Len(ends) THEN <<>>
    ELSE FirstPathRest(r, i, s, ends, k, ic, FirstPath(r, i + 1, s, ends[k], ic))

\* rest is the first path of the parts after r[i] from ends[k]: without one,
\* the next end of r[i] is tried
FirstPathRest(r, i, s, ends, k, ic, rest) ==
    IF rest = <<>> THEN FirstPathFrom(r, i, s, ends, k + 1, ic)
    ELSE <<ends[k]>> \o rest

\* re.match(parts, s): the path from position 0
ReMatch(parts, s, ic) == FirstPath(parts, 1, s, 0, ic)

\* re.search(pre + '(' + grp + ')', s).group(1): the leftmost start wins;
\* None without a match
RECURSIVE ReSearchFrom(_, _, _, _, _), ReSearchAt(_, _, _, _, _, _)
ReSearchFrom(pre, grp, s, k, ic) ==
    IF k > Len(s) THEN None
    ELSE ReSearchAt(pre, grp, s, k, ic, FirstPath(<<pre, grp>>, 1, s, k, ic))

\* path is the match that starts after k characters, <<>> if there is none
ReSearchAt(pre, grp, s, k, ic, path) ==
    IF path = <<>> THEN ReSearchFrom(pre, grp, s, k + 1, ic)
    ELSE SubSeq(s, path[1] + 1, path[2])

ReSearch(pattern, s, ic) == ReSearchFrom(pattern.pre, pattern.grp, s, 0, ic)

(***************************************************************************)
(* datetime.strptime with the month name directive, and strftime.          *)
(***************************************************************************)
\* calendar.month_name[1:], lowercased
MonthNames ==
    <<<<106, 97, 110, 117, 97, 114, 121>>,
      <<102, 101, 98, 114, 117, 97, 114, 121>>,
      <<109, 97, 114, 99, 104>>,
      <<97, 112, 114, 105, 108>>,
      <<109, 97, 121>>,
      <<106, 117, 110, 101>>,
      <<106, 117, 108, 121>>,
      <<97, 117, 103, 117, 115, 116>>,
      <<115, 101, 112, 116, 101, 109, 98, 101, 114>>,
      <<111, 99, 116, 111, 98, 101, 114>>,
      <<110, 111, 118, 101, 109, 98, 101, 114>>,
      <<100, 101, 99, 101, 109, 98, 101, 114>>>>

\* the directive %B: the full month names, case ignored
ReMonthName == Alt([n \in 1..12 |-> Lit(MonthNames[n])])

\* the directive %d: 3[0-1]|[1-2]\d|0[1-9]|[1-9]| [1-9]
ReDay ==
    Alt(<<Cat(<<Lit(<<51>>), OneOf(48..49)>>),
          Cat(<<OneOf(49..50), ReDigit>>),
          Cat(<<Lit(<<48>>), OneOf(49..57)>>),
          OneOf(49..57),
          Cat(<<Lit(<<32>>), OneOf(49..57)>>)>>)

\* the directive %Y: \d\d\d\d
ReYear == Rep(ReDigit, 4, 4)

\* the number of the month whose name is w, case ignored
MonthNumber(w) == CHOOSE n \in 1..12 : Lower(w) = MonthNames[n]

\* a date the datetime constructor accepts
ValidDate(y, m, d) == y >= 1 /\ m \in 1..12 /\ d \in 1..DaysInMonth(y, m)

\* datetime.strptime(s, '%B %d, %Y') and (s, '%B %d %Y'): comma says which.
\* The match must end where s ends.
strptime_Bd_Y(s, comma) ==
    LET parts == <<ReMonthName, Plus(ReSpace), ReDay>>
                     \o (IF comma THEN <<Lit(<<44>>)>> ELSE <<>>)
                     \o <<Plus(ReSpace), ReYear>>
        n == Len(parts)
        path == ReMatch(parts, s, TRUE)
    IN IF path = <<>> \/ path[n] # Len(s) THEN NoDate
       ELSE LET y == Num(SubSeq(s, path[n - 1] + 1, path[n]))
                m == MonthNumber(SubSeq(s, 1, path[1]))
                d == TokenVal(SubSeq(s, path[2] + 1, path[3]))
            IN IF ValidDate(y, m, d) THEN [ok |-> TRUE, y |-> y, m |-> m, d |-> d]
               ELSE NoDate

\* datetime.strptime(s, '%B, %Y') and (s, '%B %Y'): the day is 1
strptime_B_Y(s, comma) ==
    LET parts == <<ReMonthName>> \o (IF comma THEN <<Lit(<<44>>)>> ELSE <<>>)
                     \o <<Plus(ReSpace), ReYear>>
        n == Len(parts)
        path == ReMatch(parts, s, TRUE)
    IN IF path = <<>> \/ path[n] # Len(s) THEN NoDate
       ELSE LET y == Num(SubSeq(s, path[n - 1] + 1, path[n]))
                m == MonthNumber(SubSeq(s, 1, path[1]))
            IN IF ValidDate(y, m, 1) THEN [ok |-> TRUE, y |-> y, m |-> m, d |-> 1]
               ELSE NoDate

\* s.replace(',', '')
RemoveCommas(s) == SelectSeq(s, LAMBDA c : c # 44)

\* str(n) of a natural number
RECURSIVE IntStr(_)
IntStr(n) == IF n < 10 THEN <<48 + n>> ELSE IntStr(n \div 10) \o <<48 + (n % 10)>>

\* dt.strftime('%Y-%m-%d'), the year from 1000 to 9999
strftime_Ymd(dt) == Fmt4(dt.y) \o <<45>> \o Fmt2(dt.m) \o <<45>> \o Fmt2(dt.d)

(***************************************************************************)
(* Program constants.                                                      *)
(***************************************************************************)
\* '2024-01-01'
Cutoff == <<50, 48, 50, 52, 45, 48, 49, 45, 48, 49>>
\* '9999-12-31'
SortSentinel == <<57, 57, 57, 57, 45, 49, 50, 45, 51, 49>>
\* the 50 of title[:50]
SigLen == 50

(***************************************************************************)
(* The events the model draws stores and batches from.                     *)
(***************************************************************************)
Gilead == <<71, 105, 108, 101, 97, 100>>
Vertex == <<86, 101, 114, 116, 101, 120>>
\* '2023-12-31', '2024-05-01'
DateOld == <<50, 48, 50, 51, 45, 49, 50, 45, 51, 49>>
DateMay == <<50, 48, 50, 52, 45, 48, 53, 45, 48, 49>>
\* fifty 'a', then 'x' or 'y': two titles that agree on their first 50 characters
TitleX == [i \in 1..SigLen |-> 97] \o <<120>>
TitleY == [i \in 1..SigLen |-> 97] \o <<121>>
\* 'NDA'
TitleShort == <<78, 68, 65>>
Link1 == <<49>>
Link2 == <<50>>

evA      == [company |-> Gilead, date |-> DateMay, title |-> TitleX, link |-> Link1]
evB      == [company |-> Gilead, date |-> DateMay, title |-> TitleY, link |-> Link2]
evOld    == [company |-> Vertex, date |-> DateOld, title |-> TitleShort, link |-> Link1]
\* dated on the cutoff, and without a title
evCut    == [company |-> Vertex, date |-> Cutoff, link |-> Link1]
evEmpty  == [company |-> Vertex, date |-> <<>>, title |-> TitleShort, link |-> Link1]

Events == {evA, evB, evOld, evCut, evEmpty}

ListsOf(S, n) == UNION {[1..k -> S] : k \in 0..n}

Stores == ListsOf(Events, MaxStore)
Batches == ListsOf(Events, MaxBatch)

(***************************************************************************)
(* The parts of update_database that are the same text in all five files.  *)
(***************************************************************************)
\* the load: an absent file is an empty list
\* no file; a file json.dump wrote, or that holds a JSON list of events all
\* the same; a file with any other text
AbsentFile == [exists |-> FALSE, text |-> None, events |-> <<>>]
JsonFile(events) == [exists |-> TRUE, text |-> None, events |-> events]
TextFile(text) == [exists |-> TRUE, text |-> text, events |-> <<>>]

\* content.strip()
RECURSIVE Strip(_)
Strip(s) ==
    IF s = <<>> THEN s
    ELSE IF s[1] \in Whitespace THEN Strip(Tail(s))
    ELSE IF s[Len(s)] \in Whitespace THEN Strip(SubSeq(s, 1, Len(s) - 1))
    ELSE s

\* 'null', 'true', 'false'
JsonNull == <<110, 117, 108, 108>>
JsonTrue == <<116, 114, 117, 101>>
JsonFalse == <<102, 97, 108, 115, 101>>

\* json.loads of a text that holds no list, no object, no string and no
\* number: it is one of the three literals (white space around it allowed),
\* or json.JSONDecodeError is raised
JsonLiteral(text) == Strip(text) \in {JsonNull, JsonTrue, JsonFalse}

\* "absent", "blank", "invalid" (not JSON), "literal" (JSON, but no list), "list"
FileKind(file) ==
    IF ~file.exists THEN "absent"
    ELSE IF file.text = None THEN "list"
    ELSE IF Strip(file.text) = <<>> THEN "blank"
    ELSE IF JsonLiteral(file.text) THEN "literal"
    ELSE "invalid"

\* the except clause of the load left out: the JSONDecodeError goes up
LoadOf_uncaught(file) ==
    [data |-> IF FileKind(file) = "list" THEN file.events ELSE <<>>,
     raises |-> IF FileKind(file) = "invalid" THEN "JSONDecodeError"
                ELSE IF FileKind(file) = "literal" THEN "TypeError" ELSE "none"]

\* lines 374-382 and the loop header of line 385: the list update_database
\* goes on with, and the exception that ends it.  An absent or blank file
\* and a JSONDecodeError leave []; None, True or False is not iterable.
LoadOf(file) ==
    [data |-> IF FileKind(file) = "list" THEN file.events ELSE <<>>,
     raises |-> IF FileKind(file) = "literal" THEN "TypeError" ELSE "none"]

Load == LoadOf(data_json).data

\* key=lambda x: x.get('date') or '9999-12-31'
SortKey(x) ==
    LET d == Get(x, "date", None) IN IF Truthy(d) THEN d ELSE SortSentinel

\* list.sort(key=...) is stable: an element goes behind every element whose
\* key is not greater than its own
SortInsert(s, x) ==
    LET n == Cardinality({i \in 1..Len(s) : ~StrLess(SortKey(x), SortKey(s[i]))})
    IN SubSeq(s, 1, n) \o <<x>> \o SubSeq(s, n + 1, Len(s))

\* the sort left out
SortByDate_skipped(s) == s

RECURSIVE SortByDate(_)
SortByDate(s) ==
    IF s = <<>> THEN <<>>
    ELSE SortInsert(SortByDate(SubSeq(s, 1, Len(s) - 1)), s[Len(s)])

\* '>' written for '>='
KeptByCutoff_strict(e) == StrLess(Cutoff, Get(e, "date", <<>>))

\* e.get('date', '') >= '2024-01-01'
KeptByCutoff(e) == StrGeq(Get(e, "date", <<>>), Cutoff)

\* the filter before the write left out
FilterCutoff_skipped(s) == s

\* filtered_data = [e for e in existing_data if ...]
FilterCutoff(s) == SelectSeq(s, KeptByCutoff)

\* event_date and event_date < '2024-01-01'
IsStale(item) ==
    LET item_date == Get(item, "date", <<>>)
    IN Truthy(item_date) /\ StrLess(item_date, Cutoff)

\* the state of the loop over new_events
LoopState(data, sigs, acc) == [data |-> data, sigs |-> sigs, accepted |-> acc]

\* existing_data = [event] written for existing_data.append(event)
Accept_replacing(st, event, sig, i) ==
    LoopState(<<event>>, st.sigs \cup {sig}, Append(st.accepted, i))

\* existing_data.append(event); existing_signatures.add(sig); added_count += 1
Accept(st, event, sig, i) ==
    LoopState(Append(st.data, event), st.sigs \cup {sig}, Append(st.accepted, i))

(***************************************************************************)
(* tracker.py                                                              *)
(***************************************************************************)
\* (item.get('company'), item.get('date'), item.get('title'))
tracker_sig(item) ==
    <<Get(item, "company", None), Get(item, "date", None), Get(item, "title", None)>>

\* the signatures of the existing entries that are not stale
tracker_existing_signatures(existing) ==
    {tracker_sig(existing[k]) : k \in {j \in 1..Len(existing) : ~IsStale(existing[j])}}

RECURSIVE tracker_loop(_, _, _)
tracker_loop(new, i, st) ==
    IF i > Len(new) THEN st
    ELSE IF IsStale(new[i]) THEN tracker_loop(new, i + 1, st)
    ELSE IF tracker_sig(new[i]) \notin st.sigs
         THEN tracker_loop(new, i + 1, Accept(st, new[i], tracker_sig(new[i]), i))
         ELSE tracker_loop(new, i + 1, st)

tracker_merge(existing, new) ==
    tracker_loop(new, 1, LoopState(existing, tracker_existing_signatures(existing), <<>>))

(***************************************************************************)
(* clinicaltrials_scraper.py                                               *)
(***************************************************************************)
\* (item.get('company'), item.get('date'), item.get('title', '')[:50])
clinicaltrials_sig(item) ==
    <<Get(item, "company", None), Get(item, "date", None),
      Slice(Get(item, "title", <<>>), SigLen)>>

clinicaltrials_existing_signatures(existing) ==
    {clinicaltrials_sig(existing[k]) : k \in 1..Len(existing)}

RECURSIVE clinicaltrials_loop(_, _, _)
clinicaltrials_loop(new, i, st) ==
    IF i > Len(new) THEN st
    ELSE IF IsStale(new[i]) THEN clinicaltrials_loop(new, i + 1, st)
    ELSE IF clinicaltrials_sig(new[i]) \notin st.sigs
         THEN clinicaltrials_loop(new, i + 1,
                                  Accept(st, new[i], clinicaltrials_sig(new[i]), i))
         ELSE clinicaltrials_loop(new, i + 1, st)

clinicaltrials_merge(existing, new) ==
    clinicaltrials_loop(new, 1,
        LoopState(existing, clinicaltrials_existing_signatures(existing), <<>>))

(***************************************************************************)
(* historical_scraper.py                                                   *)
(***************************************************************************)
historical_sig(item) ==
    <<Get(item, "company", None), Get(item, "date", None),
      Slice(Get(item, "title", <<>>), SigLen)>>

historical_existing_signatures(existing) ==
    {historical_sig(existing[k]) : k \in 1..Len(existing)}

RECURSIVE historical_loop(_, _, _)
historical_loop(new, i, st) ==
    IF i > Len(new) THEN st
    ELSE IF IsStale(new[i]) THEN historical_loop(new, i + 1, st)
    ELSE IF historical_sig(new[i]) \notin st.sigs
         THEN historical_loop(new, i + 1, Accept(st, new[i], historical_sig(new[i]), i))
         ELSE historical_loop(new, i + 1, st)

historical_merge(existing, new) ==
    historical_loop(new, 1,
        LoopState(existing, historical_existing_signatures(existing), <<>>))

(***************************************************************************)
(* label_scraper.py: its loop has no cutoff test                           *)
(***************************************************************************)
label_sig(item) ==
    <<Get(item, "company", None), Get(item, "date", None),
      Slice(Get(item, "title", <<>>), SigLen)>>

label_existing_signatures(existing) ==
    {label_sig(existing[k]) : k \in 1..Len(existing)}

RECURSIVE label_loop(_, _, _)
label_loop(new, i, st) ==
    IF i > Len(new) THEN st
    ELSE IF label_sig(new[i]) \notin st.sigs
         THEN label_loop(new, i + 1, Accept(st, new[i], label_sig(new[i]), i))
         ELSE label_loop(new, i + 1, st)

label_merge(existing, new) ==
    label_loop(new, 1, LoopState(existing, label_existing_signatures(existing), <<>>))

(***************************************************************************)
(* sec_edgar_scraper.py                                                    *)
(***************************************************************************)
sec_edgar_sig(item) ==
    <<Get(item, "company", None), Get(item, "date", None),
      Slice(Get(item, "title", <<>>), SigLen)>>

\* the signatures of the existing entries not collected
sec_edgar_existing_signatures_empty(existing) == {}

sec_edgar_existing_signatures(existing) ==
    {sec_edgar_sig(existing[k]) : k \in 1..Len(existing)}

RECURSIVE sec_edgar_loop(_, _, _)
sec_edgar_loop(new, i, st) ==
    IF i > Len(new) THEN st
    ELSE IF IsStale(new[i]) THEN sec_edgar_loop(new, i + 1, st)
    ELSE IF sec_edgar_sig(new[i]) \notin st.sigs
         THEN sec_edgar_loop(new, i + 1, Accept(st, new[i], sec_edgar_sig(new[i]), i))
         ELSE sec_edgar_loop(new, i + 1, st)

sec_edgar_merge(existing, new) ==
    sec_edgar_loop(new, 1,
        LoopState(existing, sec_edgar_existing_signatures(existing), <<>>))

(***************************************************************************)
(* One call of update_database: load, merge, sort, filter, write.          *)
(***************************************************************************)
Scrapers == {"tracker", "clinicaltrials", "historical", "label", "sec_edgar"}

\* the loop of the named module, run on the loaded list
MergeOf(name, existing, new) ==
    CASE name = "tracker" -> tracker_merge(existing, new)
      [] name = "clinicaltrials" -> clinicaltrials_merge(existing, new)
      [] name = "historical" -> historical_merge(existing, new)
      [] name = "label" -> label_merge(existing, new)
      [] name = "sec_edgar" -> sec_edgar_merge(existing, new)

\* item.get('title', '')[:50] of a title that is None raises TypeError;
\* tracker.py does not slice the title
SigRaises(name, item) == name # "tracker" /\ Get(item, "title", <<>>) = None

\* the signatures update_database computes: of every existing entry (tracker:
\* of those that are not stale), and of every candidate the cutoff test does
\* not skip (label has no such test)
MergeRaises(name, existing, new) ==
    \/ \E k \in 1..Len(existing) : SigRaises(name, existing[k])
    \/ \E i \in 1..Len(new) :
           (name = "label" \/ ~IsStale(new[i])) /\ SigRaises(name, new[i])

\* e.get('date', '') >= '2024-01-01' of a date that is None raises TypeError
FilterRaises(data) == \E i \in 1..Len(data) : Get(data[i], "date", <<>>) = None

\* the exception that ends update_database, "none" if it writes the file
RaisesOf(name, file, new) ==
    IF LoadOf(file).raises # "none" THEN LoadOf(file).raises
    ELSE IF MergeRaises(name, LoadOf(file).data, new) THEN "TypeError"
    ELSE IF FilterRaises(MergeOf(name, LoadOf(file).data, new).data) THEN "TypeError"
    ELSE "none"

\* what the named module writes to data.json, given the loaded list
Written(name, existing, new) ==
    FilterCutoff(SortByDate(MergeOf(name, existing, new).data))

\* update_database and the variables of the store
update_database_store(name, new) ==
    LET st == MergeOf(name, Load, new)
        filtered_data == FilterCutoff(SortByDate(st.data))
    IN /\ found' = FileKind(data_json)
       /\ raised' = RaisesOf(name, data_json, new)
       /\ IF raised' # "none"
          THEN /\ UNCHANGED data_json
               /\ accepted' = <<>>
               /\ added_count' = 0
          ELSE /\ data_json' = JsonFile(filtered_data)
               /\ accepted' = st.accepted
               /\ added_count' = Len(st.accepted)
       /\ loaded' = Load
       /\ new_events' = new
       /\ scraper' = name
       /\ calls' = calls + 1

update_database(name, new) ==
    /\ update_database_store(name, new)
    /\ UNCHANGED <<matchVars, trialVars, extraVars, done>>

\* The first call of a behaviour is any module's, with any batch.
tracker_update_database ==
    calls = 0 /\ \E new \in Batches : update_database("tracker", new)

clinicaltrials_update_database ==
    calls = 0 /\ \E new \in Batches : update_database("clinicaltrials", new)

historical_update_database ==
    calls = 0 /\ \E new \in Batches : update_database("historical", new)

label_update_database ==
    calls = 0 /\ \E new \in Batches : update_database("label", new)

sec_edgar_update_database ==
    calls = 0 /\ \E new \in Batches : update_database("sec_edgar", new)

\* The same module runs again and its sources yield the same candidates.
rerun_update_database ==
    /\ calls \in 1..(MaxCalls - 1)
    /\ update_database(scraper, new_events)

(***************************************************************************)
(* update_database of two processes on the same data.json.  Nothing in the *)
(* function locks the file, so the read of lines 374-382 and the write of  *)
(* lines 414-415 are steps of their own: what another process does between *)
(* them is not seen.                                                       *)
(***************************************************************************)
\* process p reads data.json into its existing_data
update_database_load(p) ==
    /\ runs[p].pc = "start"
    /\ LoadOf(data_json).raises = "none"
    /\ runs' = [runs EXCEPT ![p].pc = "loaded", ![p].existing_data = Load]
    /\ UNCHANGED <<storeVars, matchVars, trialVars, secVars, mainVars, labelVars, done>>

\* process p merges its batch into what it read, sorts, filters and writes
update_database_write(p) ==
    LET st == MergeOf(runs[p].name, runs[p].existing_data, runs[p].batch)
        filtered_data == FilterCutoff(SortByDate(st.data))
    IN /\ runs[p].pc = "loaded"
       /\ data_json' = JsonFile(filtered_data)
       /\ runs' = [runs EXCEPT ![p].pc = "written", ![p].accepted = st.accepted]
       /\ loaded' = runs[p].existing_data
       /\ new_events' = runs[p].batch
       /\ accepted' = st.accepted
       /\ added_count' = Len(st.accepted)
       /\ scraper' = runs[p].name
       /\ calls' = calls + 1
       /\ UNCHANGED <<found, raised, matchVars, trialVars, secVars, mainVars, labelVars, done>>

(***************************************************************************)
(* The companies, headlines and feed entries the matchers are run on.      *)
(***************************************************************************)
\* 'Vertex'
CoVertex == <<86, 101, 114, 116, 101, 120>>
\* 'Vertex Pharmaceuticals'
CoVertexPharma == <<86, 101, 114, 116, 101, 120, 32, 80, 104, 97, 114, 109, 97, 99, 101, 117, 116, 105, 99, 97, 108, 115>>
\* 'Amgen Inc.'
CoAmgen == <<65, 109, 103, 101, 110, 32, 73, 110, 99, 46>>
\* 'Eli Co'
CoShort == <<69, 108, 105, 32, 67, 111>>
\* 'Vertex Pharmaceuticals announces FDA Approval'
TextVertex == <<86, 101, 114, 116, 101, 120, 32, 80, 104, 97, 114, 109, 97, 99, 101, 117, 116, 105, 99, 97, 108, 115, 32, 97, 110, 110, 111, 117, 110, 99, 101, 115, 32, 70, 68, 65, 32, 65, 112, 112, 114, 111, 118, 97, 108>>
\* 'AMGEN wins Priority Review'
TextAmgen == <<65, 77, 71, 69, 78, 32, 119, 105, 110, 115, 32, 80, 114, 105, 111, 114, 105, 116, 121, 32, 82, 101, 118, 105, 101, 119>>
\* 'Pharmaceuticals NDA filings by Eli Co'
TextPharma == <<80, 104, 97, 114, 109, 97, 99, 101, 117, 116, 105, 99, 97, 108, 115, 32, 78, 68, 65, 32, 102, 105, 108, 105, 110, 103, 115, 32, 98, 121, 32, 69, 108, 105, 32, 67, 111>>
\* 'Weather report'
TextNone == <<87, 101, 97, 116, 104, 101, 114, 32, 114, 101, 112, 111, 114, 116>>
\* 'with Amgen'
SummaryAmgen == <<119, 105, 116, 104, 32, 65, 109, 103, 101, 110>>
\* 'Jan 05, 2025'
DateRaw == <<74, 97, 110, 32, 48, 53, 44, 32, 50, 48, 50, 53>>
\* 'PRNewswire'
PRNewswire == <<80, 82, 78, 101, 119, 115, 119, 105, 114, 101>>

Companies == {CoVertex, CoVertexPharma, CoAmgen, CoShort}
Texts == {TextVertex, TextAmgen, TextPharma, TextNone}
Universes == ListsOf(Companies, MaxUniverse)
\* a row of the company file without a name
CoEmpty == <<>>

\* what search_prnewswire and search_businesswire hand to match_companies
RawEvents ==
    {[title |-> t, date |-> DateRaw, link |-> Link1, source |-> PRNewswire] : t \in Texts}
        \cup {[date |-> DateRaw, link |-> Link2, source |-> PRNewswire]}

Entries == [title : Texts, summary : {<<>>, SummaryAmgen}]

(***************************************************************************)
(* historical_scraper.py: match_companies                                  *)
(***************************************************************************)
\* 'Check Source', 'Press Release'
CheckSource == <<67, 104, 101, 99, 107, 32, 83, 111, 117, 114, 99, 101>>
PressRelease == <<80, 114, 101, 115, 115, 32, 82, 101, 108, 101, 97, 115, 101>>

\* any(word in title_lower for word in company_words if len(word) > 3)
\* the length test left out of the generator
historical_word_match_anylen(company, title) ==
    LET company_words == Split(Lower(company))
        title_lower == Lower(title)
    IN \E n \in 1..Len(company_words) : Contains(title_lower, company_words[n])

historical_word_match(company, title) ==
    LET company_words == Split(Lower(company))
        title_lower == Lower(title)
    IN \E n \in 1..Len(company_words) :
           Len(company_words[n]) > 3 /\ Contains(title_lower, company_words[n])

\* the break left out of the loop over the companies: the last match stands
historical_first_company_nobreak(title, companies, i) ==
    LET P == {j \in i..Len(companies) : historical_word_match(companies[j], title)}
    IN IF P = {} THEN None ELSE companies[CHOOSE j \in P : \A k \in P : k <= j]

\* for company in target_companies: if ...: matched.append(...); break
RECURSIVE historical_first_company(_, _, _)
historical_first_company(title, companies, i) ==
    IF i > Len(companies) THEN None
    ELSE IF historical_word_match(companies[i], title) THEN companies[i]
    ELSE historical_first_company(title, companies, i + 1)

historical_matched_event(event, company) ==
    [company |-> company, drug |-> CheckSource, type |-> PressRelease,
     date |-> Get(event, "date", <<>>), title |-> Get(event, "title", <<>>),
     link |-> Get(event, "link", <<>>), source |-> Get(event, "source", <<>>)]

RECURSIVE match_companies(_, _, _, _)
match_companies(events, companies, n, out) ==
    IF n > Len(events) THEN out
    ELSE LET company == historical_first_company(Get(events[n], "title", <<>>), companies, 1)
         IN match_companies(events, companies, n + 1,
                IF company = None THEN out
                ELSE Append(out, historical_matched_event(events[n], company)))

historical_match_companies ==
    /\ "match_companies" \notin done
    /\ matched' = match_companies(raw_events, target_companies, 1, <<>>)
    /\ done' = done \cup {"match_companies"}
    /\ UNCHANGED <<storeVars, trialVars, extraVars, target_companies, raw_events, rss_entry,
                   extracted_date, rss_events,
                   detected_company>>

(***************************************************************************)
(* tracker.py: scan_rss_feeds, the keyword test and the company detection  *)
(* of one feed entry                                                       *)
(***************************************************************************)
keywords ==
    << <<80, 68, 85, 70, 65>>,
       <<78, 68, 65>>,
       <<66, 76, 65>>,
       <<115, 78, 68, 65>>,
       <<115, 66, 76, 65>>,
       <<84, 97, 114, 103, 101, 116, 32, 65, 99, 116, 105, 111, 110, 32, 68, 97, 116, 101>>,
       <<70, 68, 65, 32, 65, 112, 112, 114, 111, 118, 97, 108>>,
       <<70, 68, 65, 32, 65, 99, 99, 101, 112, 116, 115>>,
       <<67, 111, 109, 112, 108, 101, 116, 101, 32, 82, 101, 115, 112, 111, 110, 115, 101, 32, 76, 101, 116, 116, 101, 114>>,
       <<67, 82, 76>>,
       <<80, 114, 105, 111, 114, 105, 116, 121, 32, 82, 101, 118, 105, 101, 119>>,
       <<66, 114, 101, 97, 107, 116, 104, 114, 111, 117, 103, 104, 32, 84, 104, 101, 114, 97, 112, 121>>,
       <<70, 97, 115, 116, 32, 84, 114, 97, 99, 107>>,
       <<82, 111, 108, 108, 105, 110, 103, 32, 83, 117, 98, 109, 105, 115, 115, 105, 111, 110>>,
       <<65, 100, 118, 105, 115, 111, 114, 121, 32, 67, 111, 109, 109, 105, 116, 116, 101, 101>>,
       <<65, 100, 67, 111, 109, 109>>,
       <<79, 68, 65, 67>>,
       <<80, 104, 97, 115, 101, 32, 51>> >>

\* content = title + " " + summary
rss_content(entry) == entry.title \o <<32>> \o entry.summary

\* any(kw.lower() in content.lower() for kw in keywords)
rss_has_keyword(content) ==
    \E n \in 1..Len(keywords) : Contains(Lower(content), Lower(keywords[n]))

\* any(word in content_lower for word in company_words if len(word) > 3)
rss_word_match(company, content) ==
    LET company_words == Split(Lower(company))
        content_lower == Lower(content)
    IN \E n \in 1..Len(company_words) :
           Len(company_words[n]) > 3 /\ Contains(content_lower, company_words[n])

\* detected_company = None; for company in target_companies: ... break
RECURSIVE rss_detect_company(_, _, _)
rss_detect_company(content, companies, i) ==
    IF i > Len(companies) THEN None
    ELSE IF rss_word_match(companies[i], content) THEN companies[i]
    ELSE rss_detect_company(content, companies, i + 1)

(***************************************************************************)
(* sec_edgar_scraper.py: DATE_PATTERNS and extract_pdufa_date.  A pattern  *)
(* is [pre, grp]: what stands before its group, and the group.             *)
(***************************************************************************)
\* (?:of|is|:|set for)?
ReOfIs == Opt(Alt(<<Lit(<<111, 102>>), Lit(<<105, 115>>), Lit(<<58>>), Lit(<<115, 101, 116, 32, 102, 111, 114>>)>>))

\* [A-Z][a-z]+\s+\d{1,2},?\s+\d{4}
ReMonthDayYear ==
    Cat(<<ReUpper, Plus(ReLower), Plus(ReSpace), Rep(ReDigit, 1, 2), Opt(Lit(<<44>>)),
          Plus(ReSpace), Rep(ReDigit, 4, 4)>>)

\* [A-Z][a-z]+\s+\d{4}
ReMonthYear == Cat(<<ReUpper, Plus(ReLower), Plus(ReSpace), Rep(ReDigit, 4, 4)>>)

\* Q[1-4]\s+\d{4}
ReQuarterYear == Cat(<<Lit(<<81>>), OneOf(49..52), Plus(ReSpace), Rep(ReDigit, 4, 4)>>)

\* \d{4}-\d{2}-\d{2}
ReIsoDate ==
    Cat(<<Rep(ReDigit, 4, 4), Lit(<<45>>), Rep(ReDigit, 2, 2), Lit(<<45>>),
          Rep(ReDigit, 2, 2)>>)

\* (?:PDUFA|target action|goal)\s*date\s*(?:of|is|:|set for)?\s*(...)
PatternDateOf ==
    [pre |-> Cat(<<Alt(<<Lit(<<80, 68, 85, 70, 65>>), Lit(<<116, 97, 114, 103, 101, 116, 32, 97, 99, 116, 105, 111, 110>>), Lit(<<103, 111, 97, 108>>)>>),
                   Star(ReSpace), Lit(<<100, 97, 116, 101>>), Star(ReSpace), ReOfIs, Star(ReSpace)>>),
     grp |-> ReMonthDayYear]

\* (?:target action|PDUFA)\s*date\s*(?:of|is|:|set for)?\s*(...)
PatternMonthOf ==
    [pre |-> Cat(<<Alt(<<Lit(<<116, 97, 114, 103, 101, 116, 32, 97, 99, 116, 105, 111, 110>>), Lit(<<80, 68, 85, 70, 65>>)>>),
                   Star(ReSpace), Lit(<<100, 97, 116, 101>>), Star(ReSpace), ReOfIs, Star(ReSpace)>>),
     grp |-> ReMonthYear]

\* (?:decision|review|PDUFA)\s*(?:by|in|expected)\s*(Q[1-4]\s+\d{4})
PatternQuarter ==
    [pre |-> Cat(<<Alt(<<Lit(<<100, 101, 99, 105, 115, 105, 111, 110>>), Lit(<<114, 101, 118, 105, 101, 119>>), Lit(<<80, 68, 85, 70, 65>>)>>),
                   Star(ReSpace), Alt(<<Lit(<<98, 121>>), Lit(<<105, 110>>), Lit(<<101, 120, 112, 101, 99, 116, 101, 100>>)>>), Star(ReSpace)>>),
     grp |-> ReQuarterYear]

\* (?:PDUFA|target action|goal)\s*date[:\s]+(\d{4}-\d{2}-\d{2})
PatternIso ==
    [pre |-> Cat(<<Alt(<<Lit(<<80, 68, 85, 70, 65>>), Lit(<<116, 97, 114, 103, 101, 116, 32, 97, 99, 116, 105, 111, 110>>), Lit(<<103, 111, 97, 108>>)>>),
                   Star(ReSpace), Lit(<<100, 97, 116, 101>>), Plus(OneOf(Whitespace \cup {58}))>>),
     grp |-> ReIsoDate]

DATE_PATTERNS == <<PatternDateOf, PatternMonthOf, PatternQuarter, PatternIso>>

\* the groups of a match of Q([1-4])\s+(\d{4}), path being the ends of its parts
QuarterGroups(date_str, path) ==
    IF path = <<>> THEN [ok |-> FALSE, quarter |-> 0, year |-> 0]
    ELSE [ok |-> TRUE, quarter |-> date_str[2] - 48,
          year |-> Num(SubSeq(date_str, path[3] + 1, path[4]))]

\* q_match = re.match(r'Q([1-4])\s+(\d{4})', date_str): [ok, quarter, year]
QuarterMatch(date_str) ==
    QuarterGroups(date_str,
                  ReMatch(<<Lit(<<81>>), OneOf(49..52), Plus(ReSpace), Rep(ReDigit, 4, 4)>>,
                          date_str, FALSE))

\* month = quarter * 3; f"{year}-{month:02d}-28"
sec_edgar_quarter_date(year, quarter) ==
    IntStr(year) \o <<45>> \o Fmt2(quarter * 3) \o <<45, 50, 56>>

\* for fmt in [...]: try: dt = strptime(...); break; except ValueError: continue
\* with tries what each format gives: the first that parsed, NoDate if none did
FirstParsed(tries) ==
    LET ok == {n \in 1..Len(tries) : tries[n].ok}
    IN IF ok = {} THEN NoDate ELSE tries[CHOOSE n \in ok : \A k \in ok : n <= k]

\* the first of the five formats that parses date_str.replace(',', '')
sec_edgar_parse_formats(date_str) ==
    LET s == RemoveCommas(date_str)
    IN FirstParsed(<<strptime_Bd_Y(s, TRUE), strptime_Bd_Y(s, FALSE), strptime_B_Y(s, TRUE),
                     strptime_B_Y(s, FALSE), strptime_Ymd(s)>>)

\* lines 162-180: what a matched fragment becomes
sec_edgar_resolve(date_str) ==
    LET dt == sec_edgar_parse_formats(date_str)
        q_match == QuarterMatch(date_str)
    IN IF dt.ok THEN strftime_Ymd(dt)
       ELSE IF q_match.ok THEN sec_edgar_quarter_date(q_match.year, q_match.quarter)
       ELSE date_str

\* for pattern in DATE_PATTERNS: ... ; return None
RECURSIVE extract_pdufa_date_from(_, _)
extract_pdufa_date_from(text, i) ==
    IF i > Len(DATE_PATTERNS) THEN None
    ELSE LET date_str == ReSearch(DATE_PATTERNS[i], text, TRUE)
         IN IF date_str = None THEN extract_pdufa_date_from(text, i + 1)
            ELSE sec_edgar_resolve(date_str)

extract_pdufa_date(text) == extract_pdufa_date_from(text, 1)

(***************************************************************************)
(* tracker.py: scan_rss_feeds, the event of one feed entry (lines 281-364). *)
(***************************************************************************)
\* the month abbreviations of email.utils, lowercased
MonthAbbrs ==
    <<<<106, 97, 110>>, <<102, 101, 98>>, <<109, 97, 114>>, <<97, 112, 114>>, <<109, 97, 121>>, <<106, 117, 110>>, <<106, 117, 108>>, <<97, 117, 103>>, <<115, 101, 112>>, <<111, 99, 116>>, <<110, 111, 118>>, <<100, 101, 99>>>>

\* email.utils.parsedate_to_datetime(s) of 'Www, DD Mon YYYY HH:MM:SS zone',
\* the form of the feeds' pubDate; another string raises (NoDate).  The date
\* is the one written, whatever the zone.
parsedate_to_datetime(s) ==
    LET two == Rep(ReDigit, 2, 2)
        parts == <<Rep(OneOf(65..90 \cup 97..122), 3, 3), Lit(<<44, 32>>), two, Lit(<<32>>),
                   Alt([n \in 1..12 |-> Lit(MonthAbbrs[n])]), Lit(<<32>>),
                   Rep(ReDigit, 4, 4), Lit(<<32>>),
                   two, Lit(<<58>>), two, Lit(<<58>>), two, Lit(<<32>>),
                   Plus(OneOf(43..90))>>
        path == ReMatch(parts, s, TRUE)
    IN IF path = <<>> \/ path[Len(parts)] # Len(s) THEN NoDate
       ELSE LET d == Num(SubSeq(s, path[2] + 1, path[3]))
                m == CHOOSE n \in 1..12 : Lower(SubSeq(s, path[4] + 1, path[5])) = MonthAbbrs[n]
                y == Num(SubSeq(s, path[6] + 1, path[7]))
            IN IF ValidDate(y, m, d) THEN [ok |-> TRUE, y |-> y, m |-> m, d |-> d]
               ELSE NoDate

\* pub_date = getattr(entry, 'published', ''); the date of now unless
\* pub_date parses
rss_fallback_date(entry, today) ==
    LET pub_date == Get(entry, "published", <<>>)
        dt == parsedate_to_datetime(pub_date)
    IN IF pub_date # <<>> /\ dt.ok THEN strftime_Ymd(dt) ELSE strftime_Ymd(today)

\* (?:expected|anticipated)\s*(?:in|by)\s*([A-Z][a-z]+\s+\d{4})
PatternExpected ==
    [pre |-> Cat(<<Alt(<<Lit(<<101, 120, 112, 101, 99, 116, 101, 100>>), Lit(<<97, 110, 116, 105, 99, 105, 112, 97, 116, 101, 100>>)>>),
                   Star(ReSpace), Alt(<<Lit(<<105, 110>>), Lit(<<98, 121>>)>>), Star(ReSpace)>>),
     grp |-> ReMonthYear]

\* date_patterns of lines 258-263
date_patterns == <<PatternDateOf, PatternMonthOf, PatternQuarter, PatternExpected>>

\* the first of the four formats that parses date_str.replace(',', '')
rss_parse_formats(date_str) ==
    LET s == RemoveCommas(date_str)
    IN FirstParsed(<<strptime_Bd_Y(s, TRUE), strptime_Bd_Y(s, FALSE), strptime_B_Y(s, TRUE),
                     strptime_B_Y(s, FALSE)>>)

\* day = monthrange(year, month)[1]; f"{year}-{month:02d}-{day:02d}"
rss_quarter_date(year, quarter) ==
    IntStr(year) \o <<45>> \o Fmt2(quarter * 3) \o <<45>>
        \o Fmt2(DaysInMonth(year, quarter * 3))

\* lines 319-337: what a matched fragment becomes, None if nothing
rss_resolve(date_str) ==
    LET dt == rss_parse_formats(date_str)
        q_match == QuarterMatch(date_str)
    IN IF dt.ok THEN strftime_Ymd(dt)
       ELSE IF q_match.ok THEN rss_quarter_date(q_match.year, q_match.quarter)
       ELSE None

\* for pattern in date_patterns: ...; if extracted_date: break
RECURSIVE rss_extracted_date_from(_, _)
rss_extracted_date_from(content, i) ==
    IF i > Len(date_patterns) THEN None
    ELSE LET date_str == ReSearch(date_patterns[i], content, TRUE)
             resolved == IF date_str = None THEN None ELSE rss_resolve(date_str)
         IN IF Truthy(resolved) THEN resolved
            ELSE rss_extracted_date_from(content, i + 1)

rss_extracted_date(content) == rss_extracted_date_from(content, 1)

\* the comparison with the fallback date left out
rss_final_date_unordered(extracted, fallback_date) ==
    IF Truthy(extracted) THEN extracted ELSE fallback_date

\* extracted_date if extracted_date and extracted_date >= fallback_date
\* else fallback_date
rss_final_date(extracted, fallback_date) ==
    IF Truthy(extracted) /\ StrGeq(extracted, fallback_date)
    THEN extracted ELSE fallback_date

\* 'PDUFA', 'Target Action', 'AdComm', 'Advisory Committee', 'Approval', 'Approved'
KwPdufa == <<80, 68, 85, 70, 65>>
KwTargetAction == <<84, 97, 114, 103, 101, 116, 32, 65, 99, 116, 105, 111, 110>>
KwAdComm == <<65, 100, 67, 111, 109, 109>>
KwAdvisoryCommittee == <<65, 100, 118, 105, 115, 111, 114, 121, 32, 67, 111, 109, 109, 105, 116, 116, 101, 101>>
KwApproval == <<65, 112, 112, 114, 111, 118, 97, 108>>
KwApproved == <<65, 112, 112, 114, 111, 118, 101, 100>>
\* 'PDUFA Update', 'AdComm Update', 'FDA Approval'
PdufaUpdate == <<80, 68, 85, 70, 65, 32, 85, 112, 100, 97, 116, 101>>
AdCommUpdate == <<65, 100, 67, 111, 109, 109, 32, 85, 112, 100, 97, 116, 101>>
FdaApproval == <<70, 68, 65, 32, 65, 112, 112, 114, 111, 118, 97, 108>>
\* '#', 'GlobeNewswire Biotech'
HashLink == <<35>>
GlobeNewswireBiotech == <<71, 108, 111, 98, 101, 78, 101, 119, 115, 119, 105, 114, 101, 32, 66, 105, 111, 116, 101, 99, 104>>

\* lines 342-348
rss_event_type(content) ==
    IF Contains(content, KwPdufa) \/ Contains(content, KwTargetAction) THEN PdufaUpdate
    ELSE IF Contains(content, KwAdComm) \/ Contains(content, KwAdvisoryCommittee)
         THEN AdCommUpdate
    ELSE IF Contains(content, KwApproval) \/ Contains(content, KwApproved) THEN FdaApproval
    ELSE PressRelease

\* the company of the entry, None without a keyword or without a match
rss_entry_company(entry, companies) ==
    IF rss_has_keyword(rss_content(entry))
    THEN rss_detect_company(rss_content(entry), companies, 1)
    ELSE None

\* the events one entry adds to the list: one if a company was detected
rss_entry_events(entry, companies, today, source_name) ==
    LET content == rss_content(entry)
        detected == rss_entry_company(entry, companies)
    IN IF ~Truthy(detected) THEN <<>>
       ELSE <<[company |-> detected, drug |-> CheckSource,
               type |-> rss_event_type(content),
               date |-> rss_final_date(rss_extracted_date(content),
                                       rss_fallback_date(entry, today)),
               title |-> Slice(entry.title, 200),
               link |-> Get(entry, "link", HashLink),
               source |-> source_name]>>

\* one entry of one feed goes through the loop of lines 281-364
scan_rss_entry ==
    /\ "scan_rss_feeds" \notin done
    /\ detected_company' = rss_entry_company(rss_entry, target_companies)
    /\ extracted_date' =
           IF Truthy(rss_entry_company(rss_entry, target_companies))
           THEN rss_extracted_date(rss_content(rss_entry)) ELSE None
    /\ rss_events' = rss_entry_events(rss_entry, target_companies, now, GlobeNewswireBiotech)
    /\ done' = done \cup {"scan_rss_feeds"}
    /\ UNCHANGED <<storeVars, trialVars, extraVars, target_companies, raw_events, matched,
                   rss_entry>>

(***************************************************************************)
(* sec_edgar_scraper.py: search_sec_filings and main.  A filing is what    *)
(* get_company_filings returns for it, with the company it was asked for   *)
(* and the text get_filing_text returns for its link ('' on a failure).    *)
(***************************************************************************)
PDUFA_KEYWORDS ==
    <<<<80, 68, 85, 70, 65>>,
      <<116, 97, 114, 103, 101, 116, 32, 97, 99, 116, 105, 111, 110, 32, 100, 97, 116, 101>>,
      <<70, 68, 65, 32, 97, 99, 99, 101, 112, 116, 97, 110, 99, 101>>,
      <<78, 68, 65, 32, 97, 99, 99, 101, 112, 116, 97, 110, 99, 101>>,
      <<66, 76, 65, 32, 97, 99, 99, 101, 112, 116, 97, 110, 99, 101>>,
      <<70, 68, 65, 32, 104, 97, 115, 32, 97, 99, 99, 101, 112, 116, 101, 100>>,
      <<70, 68, 65, 32, 97, 99, 99, 101, 112, 116, 101, 100>>,
      <<99, 111, 109, 112, 108, 101, 116, 101, 32, 114, 101, 115, 112, 111, 110, 115, 101, 32, 108, 101, 116, 116, 101, 114>>,
      <<112, 114, 105, 111, 114, 105, 116, 121, 32, 114, 101, 118, 105, 101, 119>>,
      <<115, 116, 97, 110, 100, 97, 114, 100, 32, 114, 101, 118, 105, 101, 119>>,
      <<110, 101, 119, 32, 100, 114, 117, 103, 32, 97, 112, 112, 108, 105, 99, 97, 116, 105, 111, 110>>,
      <<98, 105, 111, 108, 111, 103, 105, 99, 115, 32, 108, 105, 99, 101, 110, 115, 101, 32, 97, 112, 112, 108, 105, 99, 97, 116, 105, 111, 110>>>>

\* any(kw.lower() in text_lower for kw in PDUFA_KEYWORDS)
has_pdufa_content(text) ==
    \E n \in 1..Len(PDUFA_KEYWORDS) : Contains(Lower(text), Lower(PDUFA_KEYWORDS[n]))

\* 'Check Filing', 'PDUFA Date', 'FDA Announcement', 'SEC EDGAR 8-K'
CheckFiling == <<67, 104, 101, 99, 107, 32, 70, 105, 108, 105, 110, 103>>
PdufaDateType == <<80, 68, 85, 70, 65, 32, 68, 97, 116, 101>>
FdaAnnouncement == <<70, 68, 65, 32, 65, 110, 110, 111, 117, 110, 99, 101, 109, 101, 110, 116>>
SecEdgar8K == <<83, 69, 67, 32, 69, 68, 71, 65, 82, 32, 56, 45, 75>>
\* 'FDA Target Action Date - ', 'See Filing', 'FDA-Related Filing'
TargetActionPrefix == <<70, 68, 65, 32, 84, 97, 114, 103, 101, 116, 32, 65, 99, 116, 105, 111, 110, 32, 68, 97, 116, 101, 32, 45, 32>>
SeeFiling == <<83, 101, 101, 32, 70, 105, 108, 105, 110, 103>>
FdaRelatedFiling == <<70, 68, 65, 45, 82, 101, 108, 97, 116, 101, 100, 32, 70, 105, 108, 105, 110, 103>>
\* the 365 of timedelta(days=365)
LastYearDays == 365

\* fd < datetime.now() - timedelta(days=365), fd at midnight; a date that
\* does not parse is not older
older_than_a_year(date, today) ==
    LET fd == strptime_Ymd(date)
    IN /\ fd.ok
       /\ DayNumber(fd.y, fd.m, fd.d) * 86400
              < (DayNumber(today.y, today.m, today.d) - LastYearDays) * 86400 + today.tod

\* lines 228-250: the event of a filing with FDA content, pdufa being what
\* extract_pdufa_date(text) returned
filing_event(filing, filing_date, filing_url, pdufa) ==
            IF Truthy(pdufa)
            THEN <<[company |-> filing.company, drug |-> CheckFiling,
                    type |-> PdufaDateType, date |-> pdufa,
                    title |-> TargetActionPrefix \o Get(filing, "title", SeeFiling),
                    link |-> filing_url, source |-> SecEdgar8K]>>
            ELSE <<[company |-> filing.company, drug |-> CheckFiling,
                    type |-> FdaAnnouncement, date |-> filing_date,
                    title |-> Get(filing, "title", FdaRelatedFiling),
                    link |-> filing_url, source |-> SecEdgar8K]>>

\* the events one filing adds (lines 205-250)
filing_events(filing, today) ==
    LET filing_date == Get(filing, "date", <<>>)
        filing_url == Get(filing, "link", <<>>)
    IN IF filing_date # <<>> /\ older_than_a_year(filing_date, today) THEN <<>>
       ELSE IF filing_url = <<>> THEN <<>>
       ELSE IF filing.text = <<>> THEN <<>>
       ELSE IF ~has_pdufa_content(filing.text) THEN <<>>
       ELSE filing_event(filing, filing_date, filing_url,
                         extract_pdufa_date(filing.text))

\* for company_name, cik in BIOTECH_CIKS.items(): for filing in filings: ...
RECURSIVE search_sec_filings(_, _, _)
search_sec_filings(fs, today, n) ==
    IF n > Len(fs) THEN <<>>
    ELSE filing_events(fs[n], today) \o search_sec_filings(fs, today, n + 1)

\* extract_pdufa_date on the text of the first filing
sec_edgar_extract_pdufa_date ==
    /\ "extract_pdufa_date" \notin done
    /\ filings # <<>>
    /\ pdufa_date' = extract_pdufa_date(filings[1].text)
    /\ done' = done \cup {"extract_pdufa_date"}
    /\ UNCHANGED <<storeVars, matchVars, trialVars, filings, sec_events, mainVars, runs, labelVars>>

\* main: events = search_sec_filings(); if events: update_database(events)
sec_edgar_main ==
    /\ "sec_edgar_main" \notin done
    /\ filings # <<>>
    /\ \E events \in {search_sec_filings(filings, now, 1)} :
          /\ sec_events' = events
          /\ IF events # <<>> THEN update_database_store("sec_edgar", events)
             ELSE UNCHANGED storeVars
    /\ done' = done \cup {"sec_edgar_main"}
    /\ UNCHANGED <<matchVars, trialVars, filings, pdufa_date, mainVars, runs, labelVars>>

(***************************************************************************)
(* clinicaltrials_scraper.py: extract_trial_events                         *)
(***************************************************************************)
\* 'Unknown Drug', 'Various', 'Phase 3', ' Completion', ': '
UnknownDrug == <<85, 110, 107, 110, 111, 119, 110, 32, 68, 114, 117, 103>>
Various == <<86, 97, 114, 105, 111, 117, 115>>
Phase3 == <<80, 104, 97, 115, 101, 32, 51>>
CompletionSuffix == <<32, 67, 111, 109, 112, 108, 101, 116, 105, 111, 110>>
ColonSpace == <<58, 32>>
\* ' - Trial Completion Expected'
TitleSuffix == <<32, 45, 32, 84, 114, 105, 97, 108, 32, 67, 111, 109, 112, 108, 101, 116, 105, 111, 110, 32, 69, 120, 112, 101, 99, 116, 101, 100>>
\* 'https://clinicaltrials.gov/study/', 'ClinicalTrials.gov'
StudyUrl == <<104, 116, 116, 112, 115, 58, 47, 47, 99, 108, 105, 110, 105, 99, 97, 108, 116, 114, 105, 97, 108, 115, 46, 103, 111, 118, 47, 115, 116, 117, 100, 121, 47>>
ClinicalTrialsGov == <<67, 108, 105, 110, 105, 99, 97, 108, 84, 114, 105, 97, 108, 115, 46, 103, 111, 118>>
\* timedelta(days=180)
LookBackDays == 180

\* {}
EmptyDict == [k \in {} |-> <<>>]

\* study['protocolSection']['statusModule']['primaryCompletionDateStruct']['date'],
\* each step a .get with a default
study_completion_date(study) ==
    LET protocol == Get(study, "protocolSection", EmptyDict)
        status_module == Get(protocol, "statusModule", EmptyDict)
        primary_completion == Get(status_module, "primaryCompletionDateStruct", EmptyDict)
    IN Get(primary_completion, "date", <<>>)

study_nct_id(study) ==
    Get(Get(Get(study, "protocolSection", EmptyDict), "identificationModule", EmptyDict),
        "nctId", <<>>)

\* interventions[0].get('name', 'Unknown Drug') if interventions else 'Unknown Drug'
study_drug_name(study) ==
    LET interventions ==
            Get(Get(Get(study, "protocolSection", EmptyDict), "armsInterventionsModule",
                    EmptyDict), "interventions", <<>>)
    IN IF interventions = <<>> THEN UnknownDrug
       ELSE Get(interventions[1], "name", UnknownDrug)

\* conditions[0] if conditions else 'Various'
study_condition(study) ==
    LET conditions ==
            Get(Get(Get(study, "protocolSection", EmptyDict), "conditionsModule",
                    EmptyDict), "conditions", <<>>)
    IN IF conditions = <<>> THEN Various ELSE conditions[1]

\* the true last day of the month instead of day 28
strftime_Ym_monthend(dt) ==
    Fmt4(dt.y) \o <<45>> \o Fmt2(dt.m) \o <<45>> \o Fmt2(DaysInMonth(dt.y, dt.m))

\* dt.strftime('%Y-%m-28')
strftime_Ym28(dt) == Fmt4(dt.y) \o <<45>> \o Fmt2(dt.m) \o <<45, 50, 56>>

\* lines 101-109: the date after the length test, or dropped
normalize_completion_date(completion_date) ==
    IF Len(completion_date) = 7
    THEN (IF strptime_Ym(completion_date).ok
          THEN [keep |-> TRUE, date |-> strftime_Ym28(strptime_Ym(completion_date))]
          ELSE [keep |-> FALSE, date |-> completion_date])
    ELSE [keep |-> TRUE, date |-> completion_date]

\* lines 111-117: dt < datetime.now() - timedelta(days=180), when the date parses
too_old(completion_date, today) ==
    LET dt == strptime_Ymd(completion_date)
    IN /\ dt.ok
       /\ DayNumber(dt.y, dt.m, dt.d) * 86400
              < (DayNumber(today.y, today.m, today.d) - LookBackDays) * 86400 + today.tod

trial_event(study, company_name, completion_date) ==
    [company |-> company_name,
     drug |-> Slice(study_drug_name(study), 50),
     type |-> Phase3 \o CompletionSuffix,
     date |-> completion_date,
     title |-> study_drug_name(study) \o ColonSpace \o study_condition(study) \o TitleSuffix,
     link |-> StudyUrl \o study_nct_id(study),
     source |-> ClinicalTrialsGov]

\* the loop over the studies; out is [events, sources]
RECURSIVE extract_trial_events(_, _, _, _, _)
extract_trial_events(ss, company_name, today, n, out) ==
    IF n > Len(ss) THEN out
    ELSE LET completion_date == study_completion_date(ss[n])
             norm == normalize_completion_date(completion_date)
         IN IF completion_date = <<>> \/ ~norm.keep \/ too_old(norm.date, today)
            THEN extract_trial_events(ss, company_name, today, n + 1, out)
            ELSE extract_trial_events(ss, company_name, today, n + 1,
                     [events |-> Append(out.events,
                                        trial_event(ss[n], company_name, norm.date)),
                      sources |-> Append(out.sources, n)])

clinicaltrials_extract_trial_events ==
    /\ "extract_trial_events" \notin done
    /\ LET out == extract_trial_events(studies, CoVertex, now, 1,
                                       [events |-> <<>>, sources |-> <<>>])
       IN /\ trial_events' = out.events
          /\ trial_sources' = out.sources
    /\ done' = done \cup {"extract_trial_events"}
    /\ UNCHANGED <<storeVars, matchVars, extraVars, studies, now>>

(***************************************************************************)
(* tracker.py: the four sources of main.  A response is [outcome, ...]:    *)
(* outcome "ok" with what the source sent, "timeout" (requests.get raises) *)
(* "status" (a status code other than 200) or "unparseable" (the body is   *)
(* not what the source should send).  A function of the model returns     *)
(* [events, raises]: its return value and the exception that leaves it.    *)
(***************************************************************************)
Returns(events) == [events |-> events, raises |-> "none"]
Raises(exception) == [events |-> <<>>, raises |-> exception]

\* str.replace(old, ''): the occurrences of old, left to right, are cut out
RECURSIVE Remove(_, _)
Remove(s, old) ==
    IF Len(s) < Len(old) \/ s = <<>> THEN s
    ELSE IF SubSeq(s, 1, Len(old)) = old THEN Remove(SubSeq(s, Len(old) + 1, Len(s)), old)
    ELSE <<s[1]>> \o Remove(Tail(s), old)

\* 'Unknown', 'PDUFA Calendar'
UnknownDrugShort == <<85, 110, 107, 110, 111, 119, 110>>
PdufaCalendar == <<80, 68, 85, 70, 65, 32, 67, 97, 108, 101, 110, 100, 97, 114>>

\* lines 58-67: the event of one item of pdufa_dates.json, if it is not past
pdufa_item_events(item, today) ==
    IF StrGeq(Get(item, "date", <<>>), strftime_Ymd(today))
    THEN <<[company |-> Get(item, "company", <<>>),
            drug |-> Get(item, "drug", UnknownDrugShort),
            type |-> Get(item, "type", PdufaDateType),
            date |-> Get(item, "date", <<>>),
            title |-> Get(item, "title", <<>>),
            link |-> Get(item, "link", HashLink),
            source |-> Get(item, "source", PdufaCalendar)]>>
    ELSE <<>>

RECURSIVE pdufa_items_events(_, _, _)
pdufa_items_events(items, today, n) ==
    IF n > Len(items) THEN <<>>
    ELSE pdufa_item_events(items[n], today) \o pdufa_items_events(items, today, n + 1)

\* the try block of load_pdufa_dates: json.load raises on a file that is not JSON
load_pdufa_dates_try(file, today) ==
    IF file.outcome = "unparseable" THEN Raises("JSONDecodeError")
    ELSE Returns(pdufa_items_events(file.items, today, 1))

\* load_pdufa_dates: no file, no events; except Exception swallows what the
\* try block raises
load_pdufa_dates(file, today) ==
    IF file.outcome = "absent" THEN Returns(<<>>)
    ELSE Returns(load_pdufa_dates_try(file, today).events)

\* 'Check Notice', 'AdComm Meeting', 'Federal Register'
CheckNotice == <<67, 104, 101, 99, 107, 32, 78, 111, 116, 105, 99, 101>>
AdCommMeeting == <<65, 100, 67, 111, 109, 109, 32, 77, 101, 101, 116, 105, 110, 103>>
FederalRegister == <<70, 101, 100, 101, 114, 97, 108, 32, 82, 101, 103, 105, 115, 116, 101, 114>>

\* item.get('abstract', '') or ''
notice_abstract(item) ==
    IF Truthy(Get(item, "abstract", <<>>)) THEN item.abstract ELSE <<>>

\* content = title + " " + abstract
notice_content(item) == Get(item, "title", <<>>) \o <<32>> \o notice_abstract(item)

\* the word test of the other matchers in place of the whole name
notice_detect_company_words(content, companies, i) ==
    historical_first_company(content, companies, i)

\* for company in target_companies: if company.lower() in content.lower(): ... break
RECURSIVE notice_detect_company(_, _, _)
notice_detect_company(content, companies, i) ==
    IF i > Len(companies) THEN None
    ELSE IF Contains(Lower(content), Lower(companies[i])) THEN companies[i]
    ELSE notice_detect_company(content, companies, i + 1)

\* lines 131-141: the publication date, unless the title holds a date that
\* '%B %d %Y' parses
notice_event_date(item) ==
    LET title == Get(item, "title", <<>>)
        date_match == ReSearch([pre |-> Cat(<<>>), grp |-> ReMonthDayYear], title, FALSE)
        dt == IF date_match = None THEN NoDate
              ELSE strptime_Bd_Y(RemoveCommas(date_match), FALSE)
    IN IF dt.ok THEN strftime_Ymd(dt) ELSE Get(item, "publication_date", <<>>)

\* html_url or pdf_url
notice_link(item) ==
    IF Get(item, "html_url", <<>>) # <<>> THEN item.html_url ELSE Get(item, "pdf_url", <<>>)

\* 'if detected_company:' left out
notice_events_unguarded(item, companies) ==
    LET detected == notice_detect_company(notice_content(item), companies, 1)
    IN <<[company |-> detected, drug |-> CheckNotice, type |-> AdCommMeeting,
          date |-> notice_event_date(item),
          title |-> Slice(Get(item, "title", <<>>), 200),
          link |-> notice_link(item), source |-> FederalRegister]>>

\* lines 106-152: the events one notice adds
notice_events(item, companies) ==
    LET detected == notice_detect_company(notice_content(item), companies, 1)
    IN IF ~Truthy(detected) THEN <<>>
       ELSE <<[company |-> detected, drug |-> CheckNotice, type |-> AdCommMeeting,
               date |-> notice_event_date(item),
               title |-> Slice(Get(item, "title", <<>>), 200),
               link |-> notice_link(item), source |-> FederalRegister]>>

RECURSIVE notices_events(_, _, _)
notices_events(results, companies, n) ==
    IF n > Len(results) THEN <<>>
    ELSE notice_events(results[n], companies) \o notices_events(results, companies, n + 1)

\* the try block of fetch_federal_register_adcomm
fetch_federal_register_adcomm_try(response, companies) ==
    IF response.outcome = "timeout" THEN Raises("Timeout")
    ELSE IF response.outcome = "status" THEN Returns(<<>>)
    ELSE IF response.outcome = "unparseable" THEN Raises("JSONDecodeError")
    ELSE Returns(notices_events(response.results, companies, 1))

\* the try block with no except clause around it
fetch_federal_register_adcomm_notry(response, companies) ==
    fetch_federal_register_adcomm_try(response, companies)

\* fetch_federal_register_adcomm: except Exception swallows what the try
\* block raises, and events, still empty then, is returned
fetch_federal_register_adcomm(response, companies) ==
    Returns(fetch_federal_register_adcomm_try(response, companies).events)

\* 'AP', 'Application', ' - ', ' Approved', 'openFDA API', 'NDA', 'ANDA', 'BLA'
StatusAP == <<65, 80>>
ApplicationWord == <<65, 112, 112, 108, 105, 99, 97, 116, 105, 111, 110>>
Dash == <<32, 45, 32>>
ApprovedSuffix == <<32, 65, 112, 112, 114, 111, 118, 101, 100>>
OpenFdaApi == <<111, 112, 101, 110, 70, 68, 65, 32, 65, 80, 73>>
WordNDA == <<78, 68, 65>>
WordANDA == <<65, 78, 68, 65>>
WordBLA == <<66, 76, 65>>
\* 'https://www.accessdata.fda.gov/scripts/cder/daf/index.cfm?event=overview.process&ApplNo='
ApplNoUrl == <<104, 116, 116, 112, 115, 58, 47, 47, 119, 119, 119, 46, 97, 99, 99, 101, 115, 115, 100, 97, 116, 97, 46, 102, 100, 97, 46, 103, 111, 118, 47, 115, 99, 114, 105, 112, 116, 115, 47, 99, 100, 101, 114, 47, 100, 97, 102, 47, 105, 110, 100, 101, 120, 46, 99, 102, 109, 63, 101, 118, 101, 110, 116, 61, 111, 118, 101, 114, 118, 105, 101, 119, 46, 112, 114, 111, 99, 101, 115, 115, 38, 65, 112, 112, 108, 78, 111, 61>>

\* any(word in sponsor_lower for word in company_words if len(word) > 3)
openfda_word_match(company, sponsor) ==
    LET company_words == Split(Lower(company))
        sponsor_lower == Lower(sponsor)
    IN \E n \in 1..Len(company_words) :
           Len(company_words[n]) > 3 /\ Contains(sponsor_lower, company_words[n])

\* for company in target_companies: ... detected_company = company; break
RECURSIVE openfda_detect_company(_, _, _)
openfda_detect_company(sponsor, companies, i) ==
    IF i > Len(companies) THEN None
    ELSE IF openfda_word_match(companies[i], sponsor) THEN companies[i]
    ELSE openfda_detect_company(sponsor, companies, i + 1)

\* lines 207-210: YYYYMMDD with dashes put in, anything else as it is
openfda_formatted_date(sub_date) ==
    IF Len(sub_date) = 8
    THEN SubSeq(sub_date, 1, 4) \o <<45>> \o SubSeq(sub_date, 5, 6) \o <<45>>
             \o SubSeq(sub_date, 7, 8)
    ELSE sub_date

\* lines 217-225: the event of an approved submission
openfda_event(result, detected, sub, formatted_date, brand_name) ==
    [company |-> detected, drug |-> brand_name, type |-> FdaApproval,
     date |-> formatted_date,
     title |-> brand_name \o Dash \o Get(sub, "submission_type", ApplicationWord)
                  \o ApprovedSuffix,
     link |-> ApplNoUrl
                  \o Remove(Remove(Remove(Get(result, "application_number", <<>>),
                                           WordNDA), WordANDA), WordBLA),
     source |-> OpenFdaApi]

\* the break of line 226 left out: every approved submission not dated
\* before 2024 gives an event
RECURSIVE openfda_submission_events_nobreak(_, _, _, _)
openfda_submission_events_nobreak(result, detected, submissions, n) ==
    IF n > Len(submissions) THEN <<>>
    ELSE IF Get(submissions[n], "submission_status", None) # StatusAP
            \/ StrLess(openfda_formatted_date(
                           Get(submissions[n], "submission_status_date", <<>>)), Cutoff)
    THEN openfda_submission_events_nobreak(result, detected, submissions, n + 1)
    ELSE <<openfda_event(result, detected, submissions[n],
                         openfda_formatted_date(
                             Get(submissions[n], "submission_status_date", <<>>)),
                         Get(result.products[1], "brand_name", UnknownDrug))>>
             \o openfda_submission_events_nobreak(result, detected, submissions, n + 1)

\* lines 204-229: the first approved submission not dated before 2024
RECURSIVE openfda_submission_events(_, _, _, _)
openfda_submission_events(result, detected, submissions, n) ==
    IF n > Len(submissions) THEN <<>>
    ELSE LET sub == submissions[n]
             formatted_date ==
                 openfda_formatted_date(Get(sub, "submission_status_date", <<>>))
             brand_name == Get(result.products[1], "brand_name", UnknownDrug)
         IN IF Get(sub, "submission_status", None) # StatusAP
                \/ StrLess(formatted_date, Cutoff)
            THEN openfda_submission_events(result, detected, submissions, n + 1)
            ELSE <<openfda_event(result, detected, sub, formatted_date, brand_name)>>

\* lines 187-229: the events one application adds
openfda_result_events(result, companies) ==
    LET detected == openfda_detect_company(Get(result, "sponsor_name", <<>>), companies, 1)
    IN IF Truthy(detected) /\ Get(result, "products", <<>>) # <<>>
       THEN openfda_submission_events(result, detected, Get(result, "submissions", <<>>), 1)
       ELSE <<>>

RECURSIVE openfda_results_events(_, _, _)
openfda_results_events(results, companies, n) ==
    IF n > Len(results) THEN <<>>
    ELSE openfda_result_events(results[n], companies)
             \o openfda_results_events(results, companies, n + 1)

\* the try block of fetch_openfda_approvals
fetch_openfda_approvals_try(response, companies) ==
    IF response.outcome = "timeout" THEN Raises("Timeout")
    ELSE IF response.outcome = "status" THEN Returns(<<>>)
    ELSE IF response.outcome = "unparseable" THEN Raises("JSONDecodeError")
    ELSE Returns(openfda_results_events(response.results, companies, 1))

\* fetch_openfda_approvals: except Exception swallows what the try block raises
fetch_openfda_approvals(response, companies) ==
    Returns(fetch_openfda_approvals_try(response, companies).events)

\* 'GlobeNewswire Healthcare'
GlobeNewswireHealthcare == <<71, 108, 111, 98, 101, 78, 101, 119, 115, 119, 105, 114, 101, 32, 72, 101, 97, 108, 116, 104, 99, 97, 114, 101>>
\* the source_name of feeds[n]
feed_source_name(n) == IF n = 1 THEN GlobeNewswireBiotech ELSE GlobeNewswireHealthcare

RECURSIVE rss_entries_events(_, _, _, _, _)
rss_entries_events(entries, companies, today, source_name, n) ==
    IF n > Len(entries) THEN <<>>
    ELSE rss_entry_events(entries[n], companies, today, source_name)
             \o rss_entries_events(entries, companies, today, source_name, n + 1)

\* the try block of one feed: feedparser.parse finds no entries in a body
\* that is no feed, and does not raise
rss_feed_try(response, companies, today, source_name) ==
    IF response.outcome = "timeout" THEN Raises("Timeout")
    ELSE IF response.outcome = "status" THEN Returns(<<>>)
    ELSE IF response.outcome = "unparseable" THEN Returns(<<>>)
    ELSE Returns(rss_entries_events(response.entries, companies, today, source_name, 1))

\* for feed_url, source_name in feeds: try: ... except Exception: print(...)
RECURSIVE scan_rss_feeds_from(_, _, _, _)
scan_rss_feeds_from(responses, companies, today, n) ==
    IF n > Len(responses) THEN <<>>
    ELSE rss_feed_try(responses[n], companies, today, feed_source_name(n)).events
             \o scan_rss_feeds_from(responses, companies, today, n + 1)

scan_rss_feeds(responses, companies, today) ==
    Returns(scan_rss_feeds_from(responses, companies, today, 1))

\* the locals of main when nothing has been fetched
NoEvents == [pdufa_events |-> <<>>, fda_events |-> <<>>, openfda_events |-> <<>>,
             rss_events |-> <<>>]

\* a statement of main runs if none before it raised
After(before, call) == IF before.raises = "none" THEN call ELSE Raises(before.raises)

\* lines 429-438 of main: the four calls in their order, an exception of one
\* ending main before the next
main_after_rss(pdufa, fda, openfda, rss) ==
    [pdufa_events |-> pdufa.events, fda_events |-> fda.events,
     openfda_events |-> openfda.events, rss_events |-> rss.events,
     raises |-> rss.raises]

\* line 438: rss_events = scan_rss_feeds(companies)
main_after_openfda(pdufa, fda, openfda, answers, companies, today) ==
    main_after_rss(pdufa, fda, openfda,
                   After(openfda, scan_rss_feeds(answers.feeds, companies, today)))

\* line 436: openfda_events = fetch_openfda_approvals(companies)
main_after_fda(pdufa, fda, answers, companies, today) ==
    main_after_openfda(pdufa, fda,
                       After(fda, fetch_openfda_approvals(answers.openfda, companies)),
                       answers, companies, today)

\* line 432: fda_events = fetch_federal_register_adcomm(companies)
main_after_pdufa(pdufa, answers, companies, today) ==
    main_after_fda(pdufa,
                   After(pdufa, fetch_federal_register_adcomm(answers.fedreg, companies)),
                   answers, companies, today)

\* line 429: pdufa_events = load_pdufa_dates()
main_locals(answers, companies, today) ==
    main_after_pdufa(load_pdufa_dates(answers.pdufa, today), answers, companies, today)

\* fetch_federal_register_adcomm(companies), the request having been answered
tracker_fetch_federal_register_adcomm ==
    /\ "fetch_federal_register_adcomm" \notin done
    /\ sources.fedreg.outcome # "none"
    /\ main_events' = [main_events EXCEPT !.fda_events =
           fetch_federal_register_adcomm(sources.fedreg, target_companies).events]
    /\ done' = done \cup {"fetch_federal_register_adcomm"}
    /\ UNCHANGED <<storeVars, matchVars, trialVars, secVars, sources, main_raised, runs, labelVars>>

\* fetch_openfda_approvals(companies), the request having been answered
tracker_fetch_openfda_approvals ==
    /\ "fetch_openfda_approvals" \notin done
    /\ sources.openfda.outcome # "none"
    /\ main_events' = [main_events EXCEPT !.openfda_events =
           fetch_openfda_approvals(sources.openfda, target_companies).events]
    /\ done' = done \cup {"fetch_openfda_approvals"}
    /\ UNCHANGED <<storeVars, matchVars, trialVars, secVars, sources, main_raised, runs, labelVars>>

\* scan_rss_feeds(companies), the feeds having answered
tracker_scan_rss_feeds ==
    /\ "tracker_scan_rss_feeds" \notin done
    /\ sources.feeds # <<>>
    /\ main_events' = [main_events EXCEPT !.rss_events =
           scan_rss_feeds(sources.feeds, target_companies, now).events]
    /\ done' = done \cup {"tracker_scan_rss_feeds"}
    /\ UNCHANGED <<storeVars, matchVars, trialVars, secVars, sources, main_raised, runs, labelVars>>

\* main: nothing is done without companies; else the four sources are asked
\* and update_database gets what they returned
tracker_main ==
    /\ "main" \notin done
    /\ done' = done \cup {"main"}
    /\ IF target_companies = <<>>
       THEN UNCHANGED <<storeVars, main_events, main_raised>>
       ELSE \E locals \in {main_locals(sources, target_companies, now)} :
            LET all_events == locals.pdufa_events \o locals.fda_events
                                  \o locals.openfda_events \o locals.rss_events
            IN /\ main_events' = [pdufa_events |-> locals.pdufa_events,
                                  fda_events |-> locals.fda_events,
                                  openfda_events |-> locals.openfda_events,
                                  rss_events |-> locals.rss_events]
               /\ IF locals.raises # "none"
                  THEN /\ main_raised' = locals.raises
                       /\ UNCHANGED storeVars
                  ELSE /\ main_raised' = RaisesOf("tracker", data_json, all_events)
                       /\ update_database_store("tracker", all_events)
    /\ UNCHANGED <<matchVars, trialVars, secVars, sources, runs, labelVars>>

(***************************************************************************)
(* The studies and the clocks extract_trial_events is run on.              *)
(***************************************************************************)
\* every YYYY-MM of two years
YearMonths == {Fmt4(y) \o <<45>> \o Fmt2(m) : y \in 2026..2027, m \in 1..12}

\* '2026-13', '2026-00', '2026/03', '2026-03-15', '2026-09-30', '2026-02-30', '2026', '2026-3-15', '2027-1-5'
OtherDates ==
    { <<50, 48, 50, 54, 45, 49, 51>>,
      <<50, 48, 50, 54, 45, 48, 48>>,
      <<50, 48, 50, 54, 47, 48, 51>>,
      <<50, 48, 50, 54, 45, 48, 51, 45, 49, 53>>,
      <<50, 48, 50, 54, 45, 48, 57, 45, 51, 48>>,
      <<50, 48, 50, 54, 45, 48, 50, 45, 51, 48>>,
      <<50, 48, 50, 54>>,
      <<50, 48, 50, 54, 45, 51, 45, 49, 53>>,
      <<50, 48, 50, 55, 45, 49, 45, 53>> }

StudyWith(date) ==
    [protocolSection |-> [statusModule |-> [primaryCompletionDateStruct |-> [date |-> date]]]]

Studies ==
    {StudyWith(date) : date \in YearMonths \cup OtherDates}
        \cup {[protocolSection |-> [statusModule |-> EmptyDict]]}

\* 2026-11-01 at noon; 2026-09-24 at midnight and at noon (180 days after 2026-03-28)
Clocks ==
    {[y |-> 2026, m |-> 11, d |-> 1, tod |-> 43200],
     [y |-> 2026, m |-> 9, d |-> 24, tod |-> 0],
     [y |-> 2026, m |-> 9, d |-> 24, tod |-> 43200]}

(***************************************************************************)
(* label_scraper.py: extract_label_events.  The value of the label's       *)
(* 'recent_major_changes' is a str or a list, and the function tells them  *)
(* apart with isinstance; it is modelled with its type: a str with its     *)
(* code points, a list with its items, a dict with its record.             *)
(***************************************************************************)
PyStr(text) == [t |-> "str", text |-> text]
PyList(items) == [t |-> "list", items |-> items]
PyDict(d) == [t |-> "dict", dict |-> d]
\* a local name that no assignment has bound
Unbound == [t |-> "unbound"]

\* 'https://dailymed.nlm.nih.gov/dailymed/lookup.cfm?setid='
DailyMedLookup == <<104, 116, 116, 112, 115, 58, 47, 47, 100, 97, 105, 108, 121, 109, 101, 100, 46, 110, 108, 109, 46, 110, 105, 104, 46, 103, 111, 118, 47, 100, 97, 105, 108, 121, 109, 101, 100, 47, 108, 111, 111, 107, 117, 112, 46, 99, 102, 109, 63, 115, 101, 116, 105, 100, 61>>
\* 'https://accessdata.fda.gov/scripts/cder/daf/index.cfm?event=BasicSearch.process&SearchTerm='
AccessDataSearch == <<104, 116, 116, 112, 115, 58, 47, 47, 97, 99, 99, 101, 115, 115, 100, 97, 116, 97, 46, 102, 100, 97, 46, 103, 111, 118, 47, 115, 99, 114, 105, 112, 116, 115, 47, 99, 100, 101, 114, 47, 100, 97, 102, 47, 105, 110, 100, 101, 120, 46, 99, 102, 109, 63, 101, 118, 101, 110, 116, 61, 66, 97, 115, 105, 99, 83, 101, 97, 114, 99, 104, 46, 112, 114, 111, 99, 101, 115, 115, 38, 83, 101, 97, 114, 99, 104, 84, 101, 114, 109, 61>>
\* 'Label Update', 'OpenFDA', 'General', 'No details provided.'
LabelUpdate == <<76, 97, 98, 101, 108, 32, 85, 112, 100, 97, 116, 101>>
OpenFda == <<79, 112, 101, 110, 70, 68, 65>>
SectionGeneral == <<71, 101, 110, 101, 114, 97, 108>>
NoDetails == <<78, 111, 32, 100, 101, 116, 97, 105, 108, 115, 32, 112, 114, 111, 118, 105, 100, 101, 100, 46>>
\* 'Label Update: ', '...', 'Section: ', '\n\n'
LabelUpdatePrefix == <<76, 97, 98, 101, 108, 32, 85, 112, 100, 97, 116, 101, 58, 32>>
Ellipsis == <<46, 46, 46>>
SectionPrefix == <<83, 101, 99, 116, 105, 111, 110, 58, 32>>
BlankLine == <<10, 10>>

\* lines 101-105: the DailyMed page of the first set id, else the FDA search
label_link(data, brand_name) ==
    IF Get(Get(data, "openfda", EmptyDict), "spl_set_id", <<>>) # <<>>
    THEN DailyMedLookup \o Get(Get(data, "openfda", EmptyDict), "spl_set_id", <<>>)[1]
    ELSE AccessDataSearch \o brand_name

\* lines 112-115: today, or the first eight characters of effective_time as
\* YYYY-MM-DD
label_display_date(effective_time, today) ==
    IF Truthy(effective_time) /\ Len(effective_time) >= 8
    THEN SubSeq(effective_time, 1, 4) \o <<45>> \o SubSeq(effective_time, 5, 6)
             \o <<45>> \o SubSeq(effective_time, 7, 8)
    ELSE strftime_Ymd(today)

\* str.zfill(2) of one or two digits
Zfill2(digits) == IF Len(digits) < 2 THEN <<48>> \o digits ELSE digits

\* f"{match.group(2)}-{match.group(1).zfill(2)}-01" of the match of
\* (\d{1,2})/(\d{4}) that starts after k characters and whose parts end at path
label_match_date(text, k, path) ==
    SubSeq(text, path[2] + 1, path[3]) \o <<45>> \o Zfill2(SubSeq(text, k + 1, path[1]))
        \o <<45, 48, 49>>

\* re.search(r'(\d{1,2})/(\d{4})', text): the leftmost match as a date, '' if
\* there is none
RECURSIVE label_search_from(_, _), label_search_at(_, _, _)
label_search_from(text, k) ==
    IF k > Len(text) THEN <<>>
    ELSE label_search_at(text, k,
             FirstPath(<<Rep(ReDigit, 1, 2), Lit(<<47>>), Rep(ReDigit, 4, 4)>>, 1, text, k, FALSE))

label_search_at(text, k, path) ==
    IF path = <<>> THEN label_search_from(text, k + 1)
    ELSE label_match_date(text, k, path)

label_search(text) == label_search_from(text, 0)

\* lines 124-129: the loop over the changes, from changes[i] on: [date, change]
\* are latest_date_str and the loop variable when the loop ends, change being
\* what the name is bound to before changes[i]
RECURSIVE label_changes_loop(_, _, _)
label_changes_loop(items, i, change) ==
    IF i > Len(items) THEN [date |-> <<>>, change |-> change]
    ELSE IF label_search(items[i].text) # <<>>
         THEN [date |-> label_search(items[i].text), change |-> items[i]]
    ELSE label_changes_loop(items, i + 1, items[i])

\* lines 119-134: latest_date_str and the local name change; a str binds no
\* change
label_scan_changes(changes) ==
    IF changes.t = "list" THEN label_changes_loop(changes.items, 1, Unbound)
    ELSE [date |-> label_search(changes.text), change |-> Unbound]

\* " | ".join(changes) raises TypeError on an item that is not a str
label_join_raises(changes) ==
    changes.t = "list" /\ \E i \in 1..Len(changes.items) : changes.items[i].t # "str"

\* line 136
label_final_date(latest_date_str, display_date) ==
    IF latest_date_str # <<>> THEN latest_date_str ELSE display_date

\* the 365 of timedelta(days=365), line 141
LabelYearDays == 365

\* dt > datetime.now() - timedelta(days=365), dt at midnight
label_is_recent(dt, today) ==
    DayNumber(dt.y, dt.m, dt.d) * 86400
        > (DayNumber(today.y, today.m, today.d) - LabelYearDays) * 86400 + today.tod

\* lines 143-154: the event, made with change.get: a name that is not bound
\* raises UnboundLocalError, a str has no get
label_event(change, company, brand_name, final_date, link) ==
    IF change.t = "unbound" THEN Raises("UnboundLocalError")
    ELSE IF change.t # "dict" THEN Raises("AttributeError")
    ELSE Returns(<<[company |-> company, drug |-> brand_name, type |-> LabelUpdate,
                    date |-> final_date,
                    title |-> LabelUpdatePrefix \o Get(change.dict, "section", SectionGeneral)
                                  \o Ellipsis,
                    details |-> SectionPrefix \o Get(change.dict, "section", UnknownDrugShort)
                                    \o BlankLine \o Get(change.dict, "notes", NoDetails),
                    link |-> link, source |-> OpenFda]>>)

\* lines 140-154, the try block: strptime raises ValueError on a date that
\* does not parse
label_try(change, company, brand_name, final_date, link, today) ==
    IF ~strptime_Ymd(final_date).ok THEN Raises("ValueError")
    ELSE IF ~label_is_recent(strptime_Ymd(final_date), today) THEN Returns(<<>>)
    ELSE label_event(change, company, brand_name, final_date, link)

\* lines 108-156, with scan what label_scan_changes gave: the bare except
\* swallows what the try block raises
label_recent_major_changes(data, scan, company, brand_name, today) ==
    Returns(label_try(scan.change, company, brand_name,
                      label_final_date(scan.date,
                          label_display_date(Get(data, "effective_time", <<>>), today)),
                      label_link(data, brand_name), today).events)

\* extract_label_events(label_data, company, brand_name): [events, raises]
extract_label_events(data, company, brand_name, today) ==
    IF "recent_major_changes" \notin DOMAIN data THEN Returns(<<>>)
    ELSE IF label_join_raises(data.recent_major_changes) THEN Raises("TypeError")
    ELSE label_recent_major_changes(data, label_scan_changes(data.recent_major_changes),
                                    company, brand_name, today)

\* 'Trikafta', the brand KEY_DRUGS has for Vertex
KeyDrugVertex == <<84, 114, 105, 107, 97, 102, 116, 97>>

\* extract_label_events runs on the label, as run_scraper calls it
label_extract_label_events ==
    /\ "extract_label_events" \notin done
    /\ \E out \in {extract_label_events(label_data, Vertex, KeyDrugVertex, now)} :
          /\ label_events' = out.events
          /\ label_raised' = out.raises
    /\ done' = done \cup {"extract_label_events"}
    /\ UNCHANGED <<storeVars, matchVars, trialVars, secVars, mainVars, runs, label_data>>

(***************************************************************************)
(* The labels extract_label_events is given.                               *)
(***************************************************************************)
\* 'Warnings and Precautions (5.1) 11/2026', 'Dosage (2.1) 3/2020',
\* 'Boxed Warning', 'Indications (1) 13/2026', 'Warnings (5.2) 10/2025'
ChangeRecent == <<87, 97, 114, 110, 105, 110, 103, 115, 32, 97, 110, 100, 32, 80, 114, 101, 99, 97, 117, 116, 105, 111, 110, 115, 32, 40, 53, 46, 49, 41, 32, 49, 49, 47, 50, 48, 50, 54>>
ChangeOld == <<68, 111, 115, 97, 103, 101, 32, 40, 50, 46, 49, 41, 32, 51, 47, 50, 48, 50, 48>>
ChangeNoDate == <<66, 111, 120, 101, 100, 32, 87, 97, 114, 110, 105, 110, 103>>
ChangeBadMonth == <<73, 110, 100, 105, 99, 97, 116, 105, 111, 110, 115, 32, 40, 49, 41, 32, 49, 51, 47, 50, 48, 50, 54>>
ChangeLastYear == <<87, 97, 114, 110, 105, 110, 103, 115, 32, 40, 53, 46, 50, 41, 32, 49, 48, 47, 50, 48, 50, 53>>

\* {'section': 'Boxed Warning', 'notes': 'Dosage (2.1) 3/2020'}
ChangeDict == PyDict([section |-> ChangeNoDate, notes |-> ChangeOld])

\* what the label has as recent_major_changes
ChangeValues ==
    {PyList(<<>>), PyList(<<PyStr(ChangeRecent)>>), PyList(<<PyStr(ChangeOld)>>),
     PyList(<<PyStr(ChangeNoDate)>>), PyList(<<PyStr(ChangeBadMonth)>>),
     PyList(<<PyStr(ChangeLastYear)>>),
     PyList(<<PyStr(ChangeNoDate), PyStr(ChangeRecent)>>),
     PyList(<<PyStr(ChangeOld), PyStr(ChangeRecent)>>),
     PyList(<<PyStr(ChangeRecent), PyStr(ChangeOld)>>),
     PyList(<<ChangeDict>>),
     PyStr(ChangeRecent), PyStr(ChangeOld), PyStr(ChangeNoDate), PyStr(<<>>)}

\* '20261001', '20240101', '20250924', '20250925', '2026', '20261301'
EffectiveTimes ==
    {<<50, 48, 50, 54, 49, 48, 48, 49>>, <<50, 48, 50, 52, 48, 49, 48, 49>>, <<50, 48, 50, 53, 48, 57, 50, 52>>, <<50, 48, 50, 53, 48, 57, 50, 53>>, <<50, 48, 50, 54>>, <<50, 48, 50, 54, 49, 51, 48, 49>>}

\* 'a1b2'
SetId == <<97, 49, 98, 50>>

\* a label with or without each of its three keys
Labels ==
    LET with_changes == {EmptyDict} \cup {[recent_major_changes |-> c] : c \in ChangeValues}
        with_time(d) == {d} \cup {[k \in DOMAIN d \cup {"effective_time"} |->
                                      IF k = "effective_time" THEN e ELSE d[k]]
                                  : e \in EffectiveTimes}
        with_id(d) == {d, [k \in DOMAIN d \cup {"openfda"} |->
                              IF k = "openfda" THEN [spl_set_id |-> <<SetId>>] ELSE d[k]]}
    IN UNION {UNION {with_id(e) : e \in with_time(d)} : d \in with_changes}

(***************************************************************************)
(* The texts the date extraction is given: a lead-in, a date fragment and  *)
(* what follows it.                                                        *)
(***************************************************************************)
Leads ==
    {<<80, 68, 85, 70, 65, 32, 100, 97, 116, 101, 32, 111, 102, 32>>,
     <<116, 97, 114, 103, 101, 116, 32, 97, 99, 116, 105, 111, 110, 32, 100, 97, 116, 101, 58, 32>>,
     <<103, 111, 97, 108, 32, 100, 97, 116, 101, 32, 105, 115, 32>>,
     <<100, 101, 99, 105, 115, 105, 111, 110, 32, 98, 121, 32>>,
     <<80, 68, 85, 70, 65, 32, 101, 120, 112, 101, 99, 116, 101, 100, 32>>,
     <<80, 68, 85, 70, 65, 32, 100, 97, 116, 101, 58, 32>>,
     <<101, 120, 112, 101, 99, 116, 101, 100, 32, 105, 110, 32>>,
     <<97, 112, 112, 114, 111, 118, 101, 100, 32, 111, 110, 32>>}

Fragments ==
    {<<77, 97, 114, 99, 104, 32, 49, 53, 44, 32, 50, 48, 50, 55>>,
     <<77, 97, 114, 99, 104, 32, 50, 48, 50, 55>>,
     <<81, 49, 32, 50, 48, 50, 54>>,
     <<81, 50, 32, 50, 48, 50, 55>>,
     <<81, 51, 32, 50, 48, 50, 56>>,
     <<81, 52, 32, 50, 48, 50, 54>>,
     <<113, 49, 32, 50, 48, 50, 55>>,
     <<50, 48, 50, 55, 45, 48, 51, 45, 49, 53>>,
     <<50, 48, 50, 55, 45, 48, 50, 45, 51, 48>>,
     <<77, 97, 114, 99, 32, 49, 53, 44, 32, 50, 48, 50, 55>>,
     <<70, 101, 98, 114, 117, 97, 114, 121, 32, 51, 48, 44, 32, 50, 48, 50, 55>>,
     <<49, 53, 44, 32, 50, 48, 50, 55>>,
     <<74, 117, 110, 101, 32, 53, 32, 50, 48, 50, 55>>}

\* '', ' for the drug'
Tails == {<<>>, <<32, 102, 111, 114, 32, 116, 104, 101, 32, 100, 114, 117, 103>>}

\* texts that two patterns of a list match:
\* 'PDUFA date of Marc 5, 2027 expected in May 2028',
\* 'goal date: Marc 5, 2027 goal date: 2028-05-01',
\* 'PDUFA date of June 5 2027 expected in May 2028'
TwoPatternTexts ==
    {<<80, 68, 85, 70, 65, 32, 100, 97, 116, 101, 32, 111, 102, 32, 77, 97, 114, 99, 32, 53, 44, 32, 50, 48, 50, 55, 32, 101, 120, 112, 101, 99, 116, 101, 100, 32, 105, 110, 32, 77, 97, 121, 32, 50, 48, 50, 56>>,
     <<103, 111, 97, 108, 32, 100, 97, 116, 101, 58, 32, 77, 97, 114, 99, 32, 53, 44, 32, 50, 48, 50, 55, 32, 103, 111, 97, 108, 32, 100, 97, 116, 101, 58, 32, 50, 48, 50, 56, 45, 48, 53, 45, 48, 49>>,
     <<80, 68, 85, 70, 65, 32, 100, 97, 116, 101, 32, 111, 102, 32, 74, 117, 110, 101, 32, 53, 32, 50, 48, 50, 55, 32, 101, 120, 112, 101, 99, 116, 101, 100, 32, 105, 110, 32, 77, 97, 121, 32, 50, 48, 50, 56>>}

DateTexts == {l \o f \o t : l \in Leads, f \in Fragments, t \in Tails} \cup TwoPatternTexts

\* 'Vertex', '8-K', 'https://sec.gov/f', '2026-10-01', '2025-10-01'
FilingTitle == <<56, 45, 75>>
FilingLink == <<104, 116, 116, 112, 115, 58, 47, 47, 115, 101, 99, 46, 103, 111, 118, 47, 102>>
FilingDate == <<50, 48, 50, 54, 45, 49, 48, 45, 48, 49>>
FilingDateOld == <<50, 48, 50, 53, 45, 49, 48, 45, 48, 49>>
\* 'FDA accepted the NDA', 'Quarterly results'
TextAccepted == <<70, 68, 65, 32, 97, 99, 99, 101, 112, 116, 101, 100, 32, 116, 104, 101, 32, 78, 68, 65>>
TextResults == <<81, 117, 97, 114, 116, 101, 114, 108, 121, 32, 114, 101, 115, 117, 108, 116, 115>>

FilingOf(text) ==
    [company |-> Vertex, title |-> FilingTitle, link |-> FilingLink, date |-> FilingDate,
     text |-> text]

\* a filing with each date text, and filings without a date in the text,
\* without a keyword, without a text, without a link, without a title, old,
\* and without a date of their own
Filings ==
    {FilingOf(t) : t \in DateTexts}
        \cup {FilingOf(TextAccepted), FilingOf(TextResults), FilingOf(<<>>),
              [FilingOf(TextAccepted) EXCEPT !.link = <<>>],
              [company |-> Vertex, link |-> FilingLink, date |-> FilingDate,
               text |-> TextAccepted],
              [FilingOf(TextAccepted) EXCEPT !.date = FilingDateOld],
              [FilingOf(TextAccepted) EXCEPT !.date = <<>>]}

\* 'Vertex NDA: ', 'Mon, 02 Feb 2026 08:00:00 GMT', 'Fri, 01 Jan 2027 23:30:00 -0500', 'yesterday'
EntryLead == <<86, 101, 114, 116, 101, 120, 32, 78, 68, 65, 58, 32>>
PublishedFeb == <<77, 111, 110, 44, 32, 48, 50, 32, 70, 101, 98, 32, 50, 48, 50, 54, 32, 48, 56, 58, 48, 48, 58, 48, 48, 32, 71, 77, 84>>
PublishedJan == <<70, 114, 105, 44, 32, 48, 49, 32, 74, 97, 110, 32, 50, 48, 50, 55, 32, 50, 51, 58, 51, 48, 58, 48, 48, 32, 45, 48, 53, 48, 48>>
PublishedBad == <<121, 101, 115, 116, 101, 114, 100, 97, 121>>

\* a feed entry with each date text in its title, published at some date or
\* without a usable one
DateEntries ==
    {[title |-> EntryLead \o t, summary |-> <<>>, published |-> p, link |-> Link1] :
         t \in DateTexts, p \in {PublishedFeb, PublishedJan, PublishedBad}}
        \cup {[title |-> EntryLead \o t, summary |-> <<>>] : t \in DateTexts}

(***************************************************************************)
(* Specifications.                                                         *)
(***************************************************************************)

\* a source that was not asked, one that answered, one that failed
Unasked == [outcome |-> "none"]
Failed(outcome) == [outcome |-> outcome]
NoSources == [pdufa |-> Unasked, fedreg |-> Unasked, openfda |-> Unasked, feeds |-> <<>>]

\* 'Vertex Pharmaceuticals Advisory Committee; September 15, 2026 Meeting'
NoticeTitleFull == <<86, 101, 114, 116, 101, 120, 32, 80, 104, 97, 114, 109, 97, 99, 101, 117, 116, 105, 99, 97, 108, 115, 32, 65, 100, 118, 105, 115, 111, 114, 121, 32, 67, 111, 109, 109, 105, 116, 116, 101, 101, 59, 32, 83, 101, 112, 116, 101, 109, 98, 101, 114, 32, 49, 53, 44, 32, 50, 48, 50, 54, 32, 77, 101, 101, 116, 105, 110, 103>>
\* 'Vertex: Notice of Meeting'
NoticeTitleWord == <<86, 101, 114, 116, 101, 120, 58, 32, 78, 111, 116, 105, 99, 101, 32, 111, 102, 32, 77, 101, 101, 116, 105, 110, 103>>
\* 'Applications of AMGEN INC. and Eli Company'
NoticeAbstract == <<65, 112, 112, 108, 105, 99, 97, 116, 105, 111, 110, 115, 32, 111, 102, 32, 65, 77, 71, 69, 78, 32, 73, 78, 67, 46, 32, 97, 110, 100, 32, 69, 108, 105, 32, 67, 111, 109, 112, 97, 110, 121>>
\* '2026-08-01', 'https://www.federalregister.gov/d/1', 'https://www.govinfo.gov/1.pdf'
NoticeDate == <<50, 48, 50, 54, 45, 48, 56, 45, 48, 49>>
NoticeHtml == <<104, 116, 116, 112, 115, 58, 47, 47, 119, 119, 119, 46, 102, 101, 100, 101, 114, 97, 108, 114, 101, 103, 105, 115, 116, 101, 114, 46, 103, 111, 118, 47, 100, 47, 49>>
NoticePdf == <<104, 116, 116, 112, 115, 58, 47, 47, 119, 119, 119, 46, 103, 111, 118, 105, 110, 102, 111, 46, 103, 111, 118, 47, 49, 46, 112, 100, 102>>

\* the items of 'results' in an answer of the Federal Register: null is None
Notices ==
    {[title |-> NoticeTitleFull, abstract |-> None, publication_date |-> NoticeDate,
      html_url |-> NoticeHtml, pdf_url |-> NoticePdf],
     [title |-> NoticeTitleWord, abstract |-> NoticeAbstract,
      publication_date |-> NoticeDate, pdf_url |-> NoticePdf]}

\* 'VERTEX PHARMS INC', 'Amgen Inc and Eli Co'
SponsorVertex == <<86, 69, 82, 84, 69, 88, 32, 80, 72, 65, 82, 77, 83, 32, 73, 78, 67>>
SponsorAmgen == <<65, 109, 103, 101, 110, 32, 73, 110, 99, 32, 97, 110, 100, 32, 69, 108, 105, 32, 67, 111>>
\* 'TRIKAFTA', 'ORIG', 'SUPPL', 'TA', 'NDA212273', 'BLA761024'
BrandTrikafta == <<84, 82, 73, 75, 65, 70, 84, 65>>
TypeOrig == <<79, 82, 73, 71>>
TypeSuppl == <<83, 85, 80, 80, 76>>
StatusTA == <<84, 65>>
ApplVertex == <<78, 68, 65, 50, 49, 50, 50, 55, 51>>
ApplAmgen == <<66, 76, 65, 55, 54, 49, 48, 50, 52>>
\* '20250110', '20230101', '20240601'
Date20250110 == <<50, 48, 50, 53, 48, 49, 49, 48>>
Date20230101 == <<50, 48, 50, 51, 48, 49, 48, 49>>
Date20240601 == <<50, 48, 50, 52, 48, 54, 48, 49>>

\* the items of 'results' in an answer of openFDA
Applications ==
    {[sponsor_name |-> SponsorVertex, application_number |-> ApplVertex,
      products |-> <<[brand_name |-> BrandTrikafta]>>,
      submissions |-> <<[submission_type |-> TypeOrig, submission_status |-> StatusAP,
                         submission_status_date |-> Date20250110]>>],
     [sponsor_name |-> SponsorAmgen, application_number |-> ApplAmgen,
      products |-> <<[active_ingredients |-> <<>>]>>,
      submissions |-> <<[submission_type |-> TypeOrig, submission_status |-> StatusAP,
                         submission_status_date |-> Date20230101],
                        [submission_type |-> TypeSuppl, submission_status |-> StatusTA,
                         submission_status_date |-> Date20250110],
                        [submission_status |-> StatusAP,
                         submission_status_date |-> Date20240601],
                        [submission_type |-> TypeSuppl, submission_status |-> StatusAP,
                         submission_status_date |-> Date20250110]>>],
     [sponsor_name |-> SponsorVertex, application_number |-> ApplVertex,
      products |-> <<>>,
      submissions |-> <<[submission_type |-> TypeOrig, submission_status |-> StatusAP,
                         submission_status_date |-> Date20250110]>>]}

\* '2027-03-15', '2025-01-01', 'Vertex PDUFA', 'VX-1'
PdufaDateFuture == <<50, 48, 50, 55, 45, 48, 51, 45, 49, 53>>
PdufaDatePast == <<50, 48, 50, 53, 45, 48, 49, 45, 48, 49>>
PdufaTitle == <<86, 101, 114, 116, 101, 120, 32, 80, 68, 85, 70, 65>>
PdufaDrug == <<86, 88, 45, 49>>

\* what pdufa_dates.json holds
PdufaItems ==
    <<[company |-> CoVertex, drug |-> PdufaDrug, date |-> PdufaDateFuture,
       title |-> PdufaTitle],
      [company |-> CoVertex, drug |-> PdufaDrug, date |-> PdufaDatePast,
       title |-> PdufaTitle]>>

\* one answer of each source of main
MainNotices == <<CHOOSE n \in Notices : n.title = NoticeTitleWord>>
MainApplications ==
    <<CHOOSE a \in Applications : a.sponsor_name = SponsorAmgen>>
\* 'Vertex BLA', 'Amgen CRL'
TitleVertexBla == <<86, 101, 114, 116, 101, 120, 32, 66, 76, 65>>
TitleAmgenCrl == <<65, 109, 103, 101, 110, 32, 67, 82, 76>>
MainEntries1 == <<[title |-> TitleVertexBla, summary |-> <<>>, link |-> Link1,
                   published |-> PublishedJan]>>
MainEntries2 == <<[title |-> TitleAmgenCrl, summary |-> <<>>, link |-> Link2]>>

FileOutcomes == {"ok", "absent", "unparseable"}
HttpOutcomes == {"ok", "timeout", "status", "unparseable"}

PdufaAnswer(outcome) ==
    IF outcome = "ok" THEN [outcome |-> "ok", items |-> PdufaItems] ELSE Failed(outcome)
FedregAnswer(outcome) ==
    IF outcome = "ok" THEN [outcome |-> "ok", results |-> MainNotices] ELSE Failed(outcome)
OpenfdaAnswer(outcome) ==
    IF outcome = "ok" THEN [outcome |-> "ok", results |-> MainApplications]
    ELSE Failed(outcome)
FeedAnswer(outcome, entries) ==
    IF outcome = "ok" THEN [outcome |-> "ok", entries |-> entries] ELSE Failed(outcome)

NoCall ==
    /\ found = "none"
    /\ raised = "none"
    /\ loaded = <<>>
    /\ new_events = <<>>
    /\ accepted = <<>>
    /\ added_count = 0
    /\ scraper = "none"
    /\ calls = 0

\* no feed entry
NoEntry == [title |-> <<>>, summary |-> <<>>]

NoMatch ==
    /\ target_companies = <<>>
    /\ raw_events = <<>>
    /\ matched = <<>>
    /\ rss_entry = NoEntry
    /\ detected_company = None
    /\ extracted_date = None
    /\ rss_events = <<>>

NoSec ==
    /\ filings = <<>>
    /\ pdufa_date = None
    /\ sec_events = <<>>

NoMainRun ==
    /\ main_events = NoEvents
    /\ main_raised = "none"

NoMain ==
    /\ sources = NoSources
    /\ NoMainRun
    /\ runs = <<>>

NoLabel ==
    /\ label_data = EmptyDict
    /\ label_events = <<>>
    /\ label_raised = "none"

NoTrial ==
    /\ studies = <<>>
    /\ now = [y |-> 2026, m |-> 11, d |-> 1, tod |-> 43200]
    /\ trial_events = <<>>
    /\ trial_sources = <<>>

\* data.json holds any list of events
Init ==
    /\ \E s \in Stores : data_json = JsonFile(s)
    /\ NoCall /\ NoMatch /\ NoTrial /\ NoSec /\ NoMain /\ done = {} /\ NoLabel

\* data.json is absent
InitAbsent ==
    /\ data_json = AbsentFile
    /\ NoCall /\ NoMatch /\ NoTrial /\ NoSec /\ NoMain /\ done = {} /\ NoLabel

Next ==
    \/ tracker_update_database
    \/ clinicaltrials_update_database
    \/ historical_update_database
    \/ label_update_database
    \/ sec_edgar_update_database
    \/ rerun_update_database

\* update_database runs on a data.json with any content
Spec == Init /\ [][Next]_vars

\* update_database runs, data.json being absent at the start
SpecAbsent == InitAbsent /\ [][Next]_vars

\* '', ' \n', '{"company": "Ver', 'null', ' null\n'
TextEmpty == <<>>
TextBlank == <<32, 10>>
TextTruncated == <<91, 123, 34, 99, 111, 109, 112, 97, 110, 121, 34, 58, 32, 34, 86, 101, 114>>
TextNull == JsonNull
TextNullLine == <<32>> \o JsonNull \o <<10>>

\* data.json is absent, or holds a text that is no JSON list
InitNoList ==
    /\ data_json \in {AbsentFile, TextFile(TextEmpty), TextFile(TextBlank),
                      TextFile(TextTruncated), TextFile(TextNull), TextFile(TextNullLine)}
    /\ NoCall /\ NoMatch /\ NoTrial /\ NoSec /\ NoMain /\ done = {} /\ NoLabel

\* update_database runs, data.json holding no list at the start
SpecNoList == InitNoList /\ [][Next]_vars

\* historical_scraper.py and tracker.py are separate programs: a run has any
\* universe and the input of one of them, any raw events or any feed entry
InitMatch ==
    /\ data_json = AbsentFile
    /\ NoCall
    /\ target_companies \in Universes
    /\ \/ /\ raw_events \in ListsOf(RawEvents, MaxRaw)
          /\ rss_entry = NoEntry
       \/ /\ raw_events = <<>>
          /\ rss_entry \in Entries
    /\ matched = <<>>
    /\ detected_company = None
    /\ extracted_date = None
    /\ rss_events = <<>>
    /\ NoTrial /\ NoSec /\ NoMain
    /\ done = {} /\ NoLabel

NextMatch ==
    \/ historical_match_companies
    \/ scan_rss_entry

\* the entity matchers run on their inputs
SpecMatch == InitMatch /\ [][NextMatch]_vars

\* any studies, any clock
InitTrial ==
    /\ data_json = AbsentFile
    /\ NoCall /\ NoMatch /\ NoSec /\ NoMain
    /\ studies \in ListsOf(Studies, MaxStudies)
    /\ now \in Clocks
    /\ trial_events = <<>>
    /\ trial_sources = <<>>
    /\ done = {} /\ NoLabel

NextTrial ==
    \/ clinicaltrials_extract_trial_events

\* extract_trial_events runs on its inputs
SpecTrial == InitTrial /\ [][NextTrial]_vars

\* any label, any clock
InitLabel ==
    /\ data_json = AbsentFile
    /\ NoCall /\ NoMatch /\ NoSec /\ NoMain
    /\ studies = <<>>
    /\ now \in Clocks
    /\ trial_events = <<>>
    /\ trial_sources = <<>>
    /\ label_data \in Labels
    /\ label_events = <<>>
    /\ label_raised = "none"
    /\ done = {}

NextLabel ==
    \/ label_extract_label_events

\* extract_label_events runs on its input
SpecLabel == InitLabel /\ [][NextLabel]_vars

\* sec_edgar_scraper.py and tracker.py are separate programs: a run has the
\* filings of the one or a feed entry of the other; data.json is absent
InitDates ==
    /\ data_json = AbsentFile
    /\ NoCall /\ NoTrial /\ NoMain
    /\ raw_events = <<>> /\ matched = <<>>
    /\ detected_company = None /\ extracted_date = None /\ rss_events = <<>>
    /\ pdufa_date = None /\ sec_events = <<>>
    /\ \/ /\ filings \in ListsOf(Filings, MaxFilings) \ {<<>>}
          /\ rss_entry = NoEntry
          /\ target_companies = <<>>
       \/ /\ filings = <<>>
          /\ rss_entry \in DateEntries
          /\ target_companies = <<CoVertex>>
    /\ done = {} /\ NoLabel

NextDates ==
    \/ sec_edgar_extract_pdufa_date
    \/ sec_edgar_main
    \/ scan_rss_entry

\* the date extraction of sec_edgar_scraper.py and of tracker.py
SpecDates == InitDates /\ [][NextDates]_vars

\* tracker.py alone: a feed entry with a date text in its title
InitEntryDates ==
    /\ data_json = AbsentFile
    /\ NoCall /\ NoTrial /\ NoSec /\ NoMain
    /\ raw_events = <<>> /\ matched = <<>>
    /\ detected_company = None /\ extracted_date = None /\ rss_events = <<>>
    /\ rss_entry \in DateEntries
    /\ target_companies = <<CoVertex>>
    /\ done = {} /\ NoLabel

NextEntryDates ==
    \/ scan_rss_entry

\* scan_rss_feeds works on one dated entry
SpecEntryDates == InitEntryDates /\ [][NextEntryDates]_vars

\* events that differ from an event of Events in what lies outside the first
\* fifty characters of the title, or in the link alone: a title of fifty 'a',
\* an empty title next to a missing one, a second stale event
evA50      == [company |-> Gilead, date |-> DateMay, title |-> [i \in 1..SigLen |-> 97],
               link |-> Link2]
evCutBlank == [company |-> Vertex, date |-> Cutoff, title |-> <<>>, link |-> Link2]
evOld2     == [company |-> Vertex, date |-> DateOld, title |-> TitleShort, link |-> Link2]

CompareEvents == {evA, evA50, evCut, evCutBlank, evOld, evOld2, evEmpty}

\* the update_database of any of the five modules, with a batch of these events
compare_update_database ==
    /\ calls = 0
    /\ \E name \in Scrapers, new \in ListsOf(CompareEvents, MaxBatch) :
           update_database(name, new)

InitCompare ==
    /\ \E s \in ListsOf(CompareEvents, MaxStore) : data_json = JsonFile(s)
    /\ NoCall /\ NoMatch /\ NoTrial /\ NoSec /\ NoMain /\ done = {} /\ NoLabel

NextCompare ==
    \/ compare_update_database

\* one call of one module's update_database, on any store of these events
SpecCompare == InitCompare /\ [][NextCompare]_vars

\* a run of tracker.py: each source answers or fails in one of its ways, the
\* company file holds companies or none, data.json is absent or holds a list
InitMain ==
    /\ NoCall /\ NoTrial /\ NoSec /\ NoMainRun /\ runs = <<>>
    /\ raw_events = <<>> /\ matched = <<>> /\ rss_entry = NoEntry
    /\ detected_company = None /\ extracted_date = None /\ rss_events = <<>>
    /\ \E p \in FileOutcomes, f \in HttpOutcomes, o \in HttpOutcomes,
          r1 \in HttpOutcomes, r2 \in HttpOutcomes :
           sources = [pdufa |-> PdufaAnswer(p), fedreg |-> FedregAnswer(f),
                      openfda |-> OpenfdaAnswer(o),
                      feeds |-> <<FeedAnswer(r1, MainEntries1),
                                  FeedAnswer(r2, MainEntries2)>>]
    /\ \/ /\ target_companies = <<CoVertex, CoAmgen>>
          /\ data_json \in {AbsentFile, JsonFile(<<evA>>)}
       \/ /\ target_companies = <<>>
          /\ data_json = AbsentFile
          /\ \A n \in 1..2 : sources.feeds[n].outcome = "ok"
          /\ sources.pdufa.outcome = "ok" /\ sources.fedreg.outcome = "ok"
          /\ sources.openfda.outcome = "ok"
    /\ done = {} /\ NoLabel

NextMain ==
    \/ tracker_main

\* tracker.py runs once
SpecMain == InitMain /\ [][NextMain]_vars

\* a process that is about to call update_database
RunOf(name, batch) ==
    [name |-> name, batch |-> batch, pc |-> "start", existing_data |-> <<>>,
     accepted |-> <<>>]

\* two scraper processes, tracker.py or sec_edgar_scraper.py each, call
\* update_database at the same time
InitConcurrent ==
    /\ data_json \in {AbsentFile, JsonFile(<<evCut>>)}
    /\ NoCall /\ NoMatch /\ NoTrial /\ NoSec
    /\ sources = NoSources /\ NoMainRun
    /\ \E n1 \in {"tracker", "sec_edgar"}, n2 \in {"tracker", "sec_edgar"},
          b1 \in ListsOf(Events, 1), b2 \in ListsOf(Events, 1) :
           runs = <<RunOf(n1, b1), RunOf(n2, b2)>>
    /\ done = {} /\ NoLabel

NextConcurrent ==
    \/ \E p \in 1..2 : update_database_load(p)
    \/ \E p \in 1..2 : update_database_write(p)

\* two update_database calls, their reads and writes in any order
SpecConcurrent == InitConcurrent /\ [][NextConcurrent]_vars

\* candidates that lack a field, or carry it as '' or as None
evNoCompany   == [date |-> DateMay, title |-> TitleShort]
evNullCompany == [company |-> None, date |-> DateMay, title |-> TitleShort]
evNullDate    == [company |-> Gilead, date |-> None, title |-> TitleShort]
evNullTitle   == [company |-> Gilead, date |-> DateMay, title |-> None]
evOldNullTitle == [company |-> Gilead, date |-> DateOld, title |-> None]
evBlank       == [company |-> <<>>, date |-> <<>>, title |-> <<>>]
evNoFields    == [link |-> Link1]

MalformedEvents ==
    {evNoCompany, evNullCompany, evNullDate, evNullTitle, evOldNullTitle, evBlank,
     evNoFields, evCut, evEmpty}

\* the update_database of any of the five modules, with a batch of such candidates
malformed_update_database ==
    /\ calls = 0
    /\ \E name \in Scrapers, new \in ListsOf(MalformedEvents, MaxBatch) :
           update_database(name, new)

\* data.json holds a list of well-formed events
InitMalformed ==
    /\ \E s \in ListsOf({evA, evOld}, MaxStore) : data_json = JsonFile(s)
    /\ NoCall /\ NoMatch /\ NoTrial /\ NoSec /\ NoMain /\ done = {} /\ NoLabel

NextMalformed ==
    \/ malformed_update_database

\* one call of one module's update_database with malformed candidates
SpecMalformed == InitMalformed /\ [][NextMalformed]_vars

\* with open(DATA_JSON_FILE, 'w') as f: the file is cut to nothing
update_database_open(p) ==
    /\ runs[p].pc = "loaded"
    /\ data_json' = TextFile(<<>>)
    /\ runs' = [runs EXCEPT ![p].pc = "opened"]
    /\ UNCHANGED <<found, raised, loaded, new_events, accepted, added_count, scraper, calls,
                   matchVars, trialVars, secVars, mainVars, labelVars, done>>

\* json.dump(filtered_data, f, indent=4) and the end of the with block
update_database_dump(p) ==
    LET st == MergeOf(runs[p].name, runs[p].existing_data, runs[p].batch)
        filtered_data == FilterCutoff(SortByDate(st.data))
    IN /\ runs[p].pc = "opened"
       /\ data_json' = JsonFile(filtered_data)
       /\ runs' = [runs EXCEPT ![p].pc = "written", ![p].accepted = st.accepted]
       /\ loaded' = runs[p].existing_data
       /\ new_events' = runs[p].batch
       /\ accepted' = st.accepted
       /\ added_count' = Len(st.accepted)
       /\ scraper' = runs[p].name
       /\ calls' = calls + 1
       /\ UNCHANGED <<found, raised, matchVars, trialVars, secVars, mainVars, labelVars, done>>

\* '[' and a line feed: how json.dump with indent=4 begins a list that is not empty
DumpStart == <<91, 10>>

\* what the file holds when the run ends between open and the end of json.dump:
\* nothing (the buffer never reached the file), or the text cut where it ended
CutFiles(filtered_data) ==
    {TextFile(<<>>)} \cup (IF filtered_data # <<>> THEN {TextFile(DumpStart)} ELSE {})

\* the run ends after its load and before its write is complete: the process
\* is killed, or an exception leaves update_database
update_database_interrupt(p) ==
    /\ runs[p].pc \in {"loaded", "opened"}
    /\ runs' = [runs EXCEPT ![p].pc = "interrupted"]
    /\ IF runs[p].pc = "opened"
       THEN data_json' \in CutFiles(Written(runs[p].name, runs[p].existing_data,
                                            runs[p].batch))
       ELSE UNCHANGED data_json
    /\ UNCHANGED <<found, raised, loaded, new_events, accepted, added_count, scraper, calls,
                   matchVars, trialVars, secVars, mainVars, labelVars, done>>

\* one run of update_database of any module, with a batch of at most one event
InitInterrupt ==
    /\ data_json \in {AbsentFile, JsonFile(<<evCut>>), JsonFile(<<evOld>>)}
    /\ NoCall /\ NoMatch /\ NoTrial /\ NoSec
    /\ sources = NoSources /\ NoMainRun
    /\ \E name \in Scrapers, batch \in ListsOf(Events, 1) : runs = <<RunOf(name, batch)>>
    /\ done = {} /\ NoLabel

NextInterrupt ==
    \/ update_database_load(1)
    \/ update_database_open(1)
    \/ update_database_dump(1)
    \/ update_database_interrupt(1)

\* a run of update_database that may end at any point after its load
SpecInterrupt == InitInterrupt /\ [][NextInterrupt]_vars

\* historical_scraper.py and tracker.py are separate programs: a run has any
\* universe and what one adapter works on: raw events, the notices of the
\* Federal Register, the applications of openFDA, or a feed with an entry
InitAdapters ==
    /\ data_json = AbsentFile
    /\ NoCall /\ NoTrial /\ NoSec /\ NoMainRun /\ runs = <<>>
    /\ target_companies \in Universes \cup {<<CoEmpty>>, <<CoEmpty, CoVertex>>}
    /\ matched = <<>> /\ rss_entry = NoEntry
    /\ detected_company = None /\ extracted_date = None /\ rss_events = <<>>
    /\ \/ /\ raw_events \in ListsOf(RawEvents, MaxRaw) \ {<<>>}
          /\ sources = NoSources
       \/ /\ raw_events = <<>>
          /\ \E results \in ListsOf(Notices, MaxRaw) :
                 sources = [NoSources EXCEPT
                               !.fedreg = [outcome |-> "ok", results |-> results]]
       \/ /\ raw_events = <<>>
          /\ \E results \in ListsOf(Applications, MaxRaw) :
                 sources = [NoSources EXCEPT
                               !.openfda = [outcome |-> "ok", results |-> results]]
       \/ /\ raw_events = <<>>
          /\ \E entry \in Entries :
                 sources = [NoSources EXCEPT
                               !.feeds = <<[outcome |-> "ok", entries |-> <<entry>>],
                                           Failed("status")>>]
    /\ done = {} /\ NoLabel

NextAdapters ==
    \/ historical_match_companies
    \/ tracker_fetch_federal_register_adcomm
    \/ tracker_fetch_openfda_approvals
    \/ tracker_scan_rss_feeds

\* the adapters that match against the company universe run on their inputs
SpecAdapters == InitAdapters /\ [][NextAdapters]_vars

\* an application whose first approval has no date
ApplicationUndated ==
    [sponsor_name |-> SponsorVertex, application_number |-> ApplVertex,
     products |-> <<[brand_name |-> BrandTrikafta]>>,
     submissions |-> <<[submission_type |-> TypeOrig, submission_status |-> StatusAP],
                       [submission_type |-> TypeSuppl, submission_status |-> StatusAP,
                        submission_status_date |-> Date20240601]>>]

\* openFDA answers with any applications, against any universe
InitApprovals ==
    /\ data_json = AbsentFile
    /\ NoCall /\ NoTrial /\ NoSec /\ NoMainRun /\ runs = <<>>
    /\ target_companies \in Universes
    /\ raw_events = <<>> /\ matched = <<>> /\ rss_entry = NoEntry
    /\ detected_company = None /\ extracted_date = None /\ rss_events = <<>>
    /\ \E results \in ListsOf(Applications \cup {ApplicationUndated}, MaxRaw) :
           sources = [NoSources EXCEPT !.openfda = [outcome |-> "ok", results |-> results]]
    /\ NoLabel
    /\ done = {}

NextApprovals ==
    \/ tracker_fetch_openfda_approvals

\* fetch_openfda_approvals runs on what openFDA sent
SpecApprovals == InitApprovals /\ [][NextApprovals]_vars

(***************************************************************************)
(* Vocabulary of the properties.                                           *)
(***************************************************************************)
\* the dedup signature: (company, date, first 50 characters of the title)
Signature(e) ==
    <<Get(e, "company", None), Get(e, "date", None),
      Slice(Get(e, "title", <<>>), SigLen)>>

DateOf(e) == Get(e, "date", <<>>)
KnownDate(e) == DateOf(e) # <<>>

Range(s) == {s[i] : i \in 1..Len(s)}

\* the list data.json holds
Store == data_json.events

Called == calls >= 1
Rerun == calls >= 2

(***************************************************************************)
(* C1. Dedup uniqueness: starting from an absent data.json, after any      *)
(* update_database runs no two entries of the written store have the same  *)
(* signature (company, date, first 50 characters of title).                *)
(* tracker.py compares whole titles, so it writes such a pair.             *)
(***************************************************************************)
C1_DedupUniqueness ==
    Called =>
        \A i, j \in 1..Len(Store) :
            i # j => Signature(Store[i]) # Signature(Store[j])

(***************************************************************************)
(* C2. Idempotence of the store: when update_database runs a second time   *)
(* with the same batch on the store the first run wrote, it writes a store *)
(* equal to it (same events, same order).                                  *)
(***************************************************************************)
C2_IdempotentStore == Rerun => Store = loaded

\* the second run found a store that the first run had added candidates to
C2_Witness ==
    /\ calls = 2
    /\ Len(loaded) > MaxStore
    /\ \E i \in 1..Len(new_events) : new_events[i] \in Range(Store)

(***************************************************************************)
(* C3. Idempotence of the count: the second of two consecutive runs with   *)
(* the same batch accepts no candidate, also when candidates have an empty *)
(* or missing date.  Fails: such candidates are accepted and then dropped  *)
(* by the cutoff filter, so the next run accepts them again.               *)
(***************************************************************************)
C3_IdempotentCount == Rerun => added_count = 0

(***************************************************************************)
(* C4. Windowing: after every update_database call, every event of the     *)
(* written store that has a non-empty date has date >= '2024-01-01',       *)
(* whether it was in the store before or is a new candidate.               *)
(***************************************************************************)
C4_Windowing ==
    Called =>
        \A i \in 1..Len(Store) :
            KnownDate(Store[i]) => StrGeq(DateOf(Store[i]), Cutoff)

\* a call that loaded a stale event and also accepted a candidate that was written
C4_Witness ==
    /\ Called
    /\ \E i \in 1..Len(loaded) : IsStale(loaded[i])
    /\ \E k \in Range(accepted) : new_events[k] \in Range(Store)

(***************************************************************************)
(* C5. Sort order: after every update_database call the written store is   *)
(* non-decreasing by date string, and every event with an empty or missing *)
(* date comes after every event with a known date.                         *)
(***************************************************************************)
C5_SortOrder ==
    Called =>
        /\ \A i, j \in 1..Len(Store) :
               i < j => ~StrLess(DateOf(Store[j]), DateOf(Store[i]))
        /\ \A i, j \in 1..Len(Store) :
               (~KnownDate(Store[i]) /\ KnownDate(Store[j])) => j < i

\* the list before the sort (loaded entries, then accepted candidates) was out
\* of order, and both events were written
C5_Witness ==
    /\ Called
    /\ \E i \in 1..Len(loaded) :
           /\ loaded[i] \in Range(Store)
           /\ \/ \E j \in (i + 1)..Len(loaded) :
                     /\ loaded[j] \in Range(Store)
                     /\ StrLess(DateOf(loaded[j]), DateOf(loaded[i]))
              \/ \E k \in Range(accepted) :
                     /\ new_events[k] \in Range(Store)
                     /\ StrLess(DateOf(new_events[k]), DateOf(loaded[i]))

(***************************************************************************)
(* C6. Existing entry wins: if the loaded store holds an event (the only   *)
(* one with its signature, dated on or after the cutoff) and a candidate   *)
(* has the same company, date and first 50 characters of title, the        *)
(* written store holds exactly one event with that signature, namely the   *)
(* loaded one, and the candidate is not counted.  Fails in tracker.py,     *)
(* which compares whole titles.                                            *)
(***************************************************************************)
C6_ExistingWins ==
    Called =>
        \A i \in 1..Len(loaded) : \A k \in 1..Len(new_events) :
            ( /\ Signature(new_events[k]) = Signature(loaded[i])
              /\ KnownDate(loaded[i]) /\ StrGeq(DateOf(loaded[i]), Cutoff)
              /\ \A j \in 1..Len(loaded) :
                     Signature(loaded[j]) = Signature(loaded[i]) => j = i )
            =>
            ( /\ Cardinality({n \in 1..Len(Store) :
                     Signature(Store[n]) = Signature(loaded[i])}) = 1
              /\ loaded[i] \in Range(Store)
              /\ k \notin Range(accepted) )

(***************************************************************************)
(* C7. Cutoff purge: update_database called with an empty batch writes a   *)
(* store without the loaded events whose non-empty date is below           *)
(* '2024-01-01', and with every loaded event dated >= '2024-01-01'.        *)
(***************************************************************************)
C7_CutoffPurge ==
    (Called /\ new_events = <<>>) =>
        /\ \A i \in 1..Len(loaded) : IsStale(loaded[i]) => loaded[i] \notin Range(Store)
        /\ \A i \in 1..Len(loaded) :
               (KnownDate(loaded[i]) /\ StrGeq(DateOf(loaded[i]), Cutoff))
                   => loaded[i] \in Range(Store)

\* an empty batch met a store with a stale event and an event dated on the cutoff
C7_Witness ==
    /\ Called /\ new_events = <<>>
    /\ \E i \in 1..Len(loaded) : IsStale(loaded[i])
    /\ \E i \in 1..Len(loaded) : DateOf(loaded[i]) = Cutoff
    /\ Store # <<>>

(***************************************************************************)
(* C8. Unknown-date candidates are kept: a candidate with an empty or      *)
(* missing date passes the cutoff test, is accepted when its signature is  *)
(* new, and is in the written store behind all known-date events.  Fails:  *)
(* the filter before the write drops every event whose date is empty or    *)
(* missing.                                                                *)
(***************************************************************************)
C8_UnknownDateKept ==
    Called =>
        \A k \in 1..Len(new_events) :
            ~KnownDate(new_events[k]) =>
                /\ (k \in Range(accepted)
                        \/ \E i \in 1..Len(loaded) :
                               Signature(loaded[i]) = Signature(new_events[k])
                        \/ \E m \in 1..(k - 1) :
                               Signature(new_events[m]) = Signature(new_events[k]))
                /\ (k \in Range(accepted) =>
                        \E n \in 1..Len(Store) :
                            /\ Store[n] = new_events[k]
                            /\ \A m \in 1..Len(Store) : KnownDate(Store[m]) => m < n)
(***************************************************************************)
(* C9. Entity match determinism: the any-long-token matcher returns the    *)
(* first company in universe order that matches and stops; with universe   *)
(* ['Vertex', 'Vertex Pharmaceuticals'] and a text naming Vertex           *)
(* Pharmaceuticals it returns 'Vertex' (no longest-match preference).      *)
(***************************************************************************)
\* the positions of the universe whose company matches the text
MatchingPositions(text) ==
    {i \in 1..Len(target_companies) : historical_word_match(target_companies[i], text)}

\* the least element of a non-empty set of numbers
Least(S) == CHOOSE x \in S : \A y \in S : x <= y

\* the raw events that some company matches, by position, in order
MatchedPositions ==
    SelectSeq([n \in 1..Len(raw_events) |-> n],
              LAMBDA n : MatchingPositions(Get(raw_events[n], "title", <<>>)) # {})

C9_FirstMatchWins ==
    /\ "match_companies" \in done =>
           /\ Len(matched) = Len(MatchedPositions)
           /\ \A k \in 1..Len(matched) :
                  matched[k].company =
                      target_companies[Least(MatchingPositions(
                          Get(raw_events[MatchedPositions[k]], "title", <<>>)))]
    /\ "scan_rss_feeds" \in done =>
           LET P == MatchingPositions(rss_content(rss_entry))
           IN IF rss_has_keyword(rss_content(rss_entry)) /\ P # {}
              THEN detected_company = target_companies[Least(P)]
              ELSE detected_company = None

\* match_companies was given ['Vertex', 'Vertex Pharmaceuticals'] and the
\* headline 'Vertex Pharmaceuticals announces FDA Approval': it said 'Vertex'
C9_Witness ==
    /\ "match_companies" \in done
    /\ target_companies = <<CoVertex, CoVertexPharma>>
    /\ Len(raw_events) = 1 /\ Get(raw_events[1], "title", <<>>) = TextVertex
    /\ MatchingPositions(TextVertex) = {1, 2}
    /\ Len(matched) = 1 /\ matched[1].company = CoVertex
(***************************************************************************)
(* C10. Year-month normalization: extract_trial_events emits a completion  *)
(* date of the form YYYY-MM as YYYY-MM-28 and a date of the form           *)
(* YYYY-MM-DD unchanged; it emits the event of every such study whose date *)
(* (a calendar date) lies within the look-back window of 180 days.         *)
(***************************************************************************)
\* YYYY-MM
IsYearMonth(s) ==
    Len(s) = 7 /\ AllDigits(SubSeq(s, 1, 4)) /\ s[5] = 45 /\ AllDigits(SubSeq(s, 6, 7))

\* YYYY-MM-DD
IsIsoDate(s) ==
    /\ Len(s) = 10 /\ AllDigits(SubSeq(s, 1, 4)) /\ s[5] = 45
    /\ AllDigits(SubSeq(s, 6, 7)) /\ s[8] = 45 /\ AllDigits(SubSeq(s, 9, 10))

\* the calendar day y-m-d is not before the day 180 days before the clock's
\* (on that very day it is, once the clock is past midnight)
InWindow(y, m, d) ==
    /\ m \in 1..12 /\ d \in 1..DaysInMonth(y, m)
    /\ LET first == DayNumber(now.y, now.m, now.d) - 180
       IN DayNumber(y, m, d) > first \/ (DayNumber(y, m, d) = first /\ now.tod = 0)

C10_YearMonthDay28 ==
    "extract_trial_events" \in done =>
        /\ \A k \in 1..Len(trial_events) :
               LET given == study_completion_date(studies[trial_sources[k]])
               IN /\ IsYearMonth(given) => trial_events[k].date = given \o <<45, 50, 56>>
                  /\ IsIsoDate(given) => trial_events[k].date = given
        /\ \A n \in 1..Len(studies) :
               LET given == study_completion_date(studies[n])
               IN /\ (IsYearMonth(given)
                          /\ InWindow(Num(SubSeq(given, 1, 4)), Num(SubSeq(given, 6, 7)), 28))
                         => n \in Range(trial_sources)
                  /\ (IsIsoDate(given)
                          /\ InWindow(Num(SubSeq(given, 1, 4)), Num(SubSeq(given, 6, 7)),
                                      Num(SubSeq(given, 9, 10))))
                         => n \in Range(trial_sources)

\* a YYYY-MM study and a YYYY-MM-DD study were both emitted
C10_Witness ==
    /\ "extract_trial_events" \in done
    /\ Len(trial_events) = 2
    /\ IsYearMonth(study_completion_date(studies[1]))
    /\ IsIsoDate(study_completion_date(studies[2]))
    /\ trial_events[1].date = study_completion_date(studies[1]) \o <<45, 50, 56>>
    /\ trial_events[2].date = study_completion_date(studies[2])

(***************************************************************************)
(* C11. Quarter normalization: where a text's date is a quarter label      *)
(* 'Qn YYYY', extract_pdufa_date of sec_edgar_scraper.py and the date      *)
(* extraction of scan_rss_feeds of tracker.py both resolve it to           *)
(* YYYY-MM-28 with MM = 3n.  Fails in tracker.py, which takes the last day *)
(* of the month.                                                           *)
(***************************************************************************)
\* the quarter label the text's date is: no pattern before the quarter
\* pattern finds anything in the text, and the quarter pattern finds 'Qn YYYY'
QuarterLabel(text) ==
    IF /\ ReSearch(PatternDateOf, text, TRUE) = None
       /\ ReSearch(PatternMonthOf, text, TRUE) = None
       /\ ReSearch(PatternQuarter, text, TRUE) # None
       /\ ReSearch(PatternQuarter, text, TRUE)[1] = 81
    THEN ReSearch(PatternQuarter, text, TRUE) ELSE None

\* YYYY-MM-28 with MM = 3n of the label 'Qn YYYY'
QuarterDay28(label) ==
    SubSeq(label, Len(label) - 3, Len(label)) \o <<45>> \o Fmt2(3 * (label[2] - 48))
        \o <<45, 50, 56>>

C11_QuarterDay28 ==
    /\ ("extract_pdufa_date" \in done /\ QuarterLabel(filings[1].text) # None)
           => pdufa_date = QuarterDay28(QuarterLabel(filings[1].text))
    /\ ("scan_rss_feeds" \in done /\ Truthy(detected_company)
            /\ QuarterLabel(rss_content(rss_entry)) # None)
           => extracted_date = QuarterDay28(QuarterLabel(rss_content(rss_entry)))

(***************************************************************************)
(* C12. Date-normalization failure is explicit: extract_pdufa_date returns *)
(* a canonical YYYY-MM-DD string or None, whatever the text.  Fails: a     *)
(* fragment that a pattern captured and that no format parses comes back   *)
(* as it stands.                                                           *)
(***************************************************************************)
C12_ExplicitNoDate ==
    "extract_pdufa_date" \in done => (pdufa_date = None \/ IsIsoDate(pdufa_date))

(***************************************************************************)
(* C13. Absent or corrupt store is an empty store: when data.json does not *)
(* exist, is empty or blank, or holds text that is not valid JSON,         *)
(* update_database does not raise, goes on with an empty list, and writes  *)
(* exactly the accepted candidates dated on or after the cutoff.           *)
(***************************************************************************)
\* the candidates the last call accepted and whose date passes the filter
AcceptedKept == {k \in Range(accepted) : StrGeq(DateOf(new_events[k]), Cutoff)}

C13_NoListIsEmpty ==
    (calls = 1 /\ found \in {"absent", "blank", "invalid"}) =>
        /\ raised = "none"
        /\ loaded = <<>>
        /\ FileKind(data_json) = "list"
        /\ Len(Store) = Cardinality(AcceptedKept)
        /\ Range(Store) = {new_events[k] : k \in AcceptedKept}

\* the first call found text that is not JSON and wrote two candidates
C13_Witness ==
    /\ calls = 1 /\ found = "invalid"
    /\ raised = "none"
    /\ Len(Store) = 2
    /\ Len(accepted) = 2

(***************************************************************************)
(* C14. Adapter failure isolation: in a tracker run, a source (PDUFA file, *)
(* Federal Register, openFDA, either RSS feed) that fails with a timeout,  *)
(* a non-success status or an unparseable payload contributes no           *)
(* candidate, no exception reaches main, the other sources are still       *)
(* asked, and update_database is called once with the candidates of the    *)
(* sources that succeeded.                                                 *)
(***************************************************************************)
\* what each source has to offer: the events of its items if it answered
PdufaCandidates ==
    IF sources.pdufa.outcome = "ok"
    THEN pdufa_items_events(sources.pdufa.items, now, 1) ELSE <<>>

FedregCandidates ==
    IF sources.fedreg.outcome = "ok"
    THEN notices_events(sources.fedreg.results, target_companies, 1) ELSE <<>>

OpenfdaCandidates ==
    IF sources.openfda.outcome = "ok"
    THEN openfda_results_events(sources.openfda.results, target_companies, 1) ELSE <<>>

FeedCandidates(n) ==
    IF sources.feeds[n].outcome = "ok"
    THEN rss_entries_events(sources.feeds[n].entries, target_companies, now,
                            feed_source_name(n), 1)
    ELSE <<>>

MainRan == "main" \in done /\ target_companies # <<>>

C14_FailureIsolation ==
    MainRan =>
        /\ main_raised = "none"
        /\ main_events = [pdufa_events |-> PdufaCandidates,
                          fda_events |-> FedregCandidates,
                          openfda_events |-> OpenfdaCandidates,
                          rss_events |-> FeedCandidates(1) \o FeedCandidates(2)]
        /\ calls = 1
        /\ new_events = PdufaCandidates \o FedregCandidates \o OpenfdaCandidates
                            \o FeedCandidates(1) \o FeedCandidates(2)

\* the PDUFA file is corrupt, the Federal Register times out, the first feed
\* answers 503: the approval of openFDA and the entry of the second feed are
\* in the written store
C14_Witness ==
    /\ MainRan
    /\ sources.pdufa.outcome = "unparseable"
    /\ sources.fedreg.outcome = "timeout"
    /\ sources.openfda.outcome = "ok"
    /\ sources.feeds[1].outcome = "status"
    /\ sources.feeds[2].outcome = "ok"
    /\ Len(new_events) = 2
    /\ \E i \in 1..Len(Store) : Store[i].source = OpenFdaApi
    /\ \E i \in 1..Len(Store) : Store[i].source = GlobeNewswireHealthcare

(***************************************************************************)
(* C15. Store write is a critical section: when two scraper runs work on   *)
(* the same data.json at the same time, their load-merge-write sequences   *)
(* do not interleave, so after both have finished the store holds every    *)
(* candidate either run accepted (dated on or after the cutoff).  Fails:   *)
(* no lock is taken, both runs can read before either writes, and the      *)
(* second write discards what the first one added.                         *)
(***************************************************************************)
BothWritten == Len(runs) = 2 /\ \A p \in 1..2 : runs[p].pc = "written"

\* the candidates run p accepted and the filter keeps
RunKept(p) ==
    {runs[p].batch[k] : k \in {j \in Range(runs[p].accepted) :
                                   StrGeq(DateOf(runs[p].batch[j]), Cutoff)}}

C15_NoLostUpdate ==
    BothWritten => \A p \in 1..2 : RunKept(p) \subseteq Range(Store)

(***************************************************************************)
(* C16. Entity-match miss drops the candidate: in the adapters that match  *)
(* against the company universe (Federal Register, openFDA, RSS,           *)
(* historical match_companies) a raw record that matches no company yields *)
(* no event, each raw record yields at most one event, and the company of  *)
(* every emitted event is an element of the universe passed in.            *)
(***************************************************************************)
\* some word of the company name, longer than 3, is in the text
LongToken(company, text) ==
    \E n \in 1..Len(Split(company)) :
        /\ Len(Split(company)[n]) > 3
        /\ Contains(Lower(text), Lower(Split(company)[n]))

\* the whole company name is in the text
FullName(company, text) == Contains(Lower(text), Lower(company))

\* the texts the adapters look for companies in, record by record
HeadlineTexts == [n \in 1..Len(raw_events) |-> Get(raw_events[n], "title", <<>>)]
EntryTexts ==
    IF sources.feeds # <<>> /\ sources.feeds[1].outcome = "ok"
    THEN [n \in 1..Len(sources.feeds[1].entries) |->
              rss_content(sources.feeds[1].entries[n])]
    ELSE <<>>
NoticeTexts ==
    IF sources.fedreg.outcome = "ok"
    THEN [n \in 1..Len(sources.fedreg.results) |-> notice_content(sources.fedreg.results[n])]
    ELSE <<>>
SponsorTexts ==
    IF sources.openfda.outcome = "ok"
    THEN [n \in 1..Len(sources.openfda.results) |->
              Get(sources.openfda.results[n], "sponsor_name", <<>>)]
    ELSE <<>>

\* the positions of the universe whose company the text names
NamedCompanies(text, Match(_, _)) ==
    {i \in 1..Len(target_companies) : Match(target_companies[i], text)}

\* the records that name a company of the universe
NamingRecords(texts, Match(_, _)) ==
    {n \in 1..Len(texts) : NamedCompanies(texts[n], Match) # {}}

\* no more events than records that name a company, each owned by a company
\* of the universe
OwnedEvents(events, texts, Match(_, _)) ==
    /\ Len(events) <= Cardinality(NamingRecords(texts, Match))
    /\ \A k \in 1..Len(events) : events[k].company \in Range(target_companies)

C16_MissDropsCandidate ==
    /\ "match_companies" \in done => OwnedEvents(matched, HeadlineTexts, LongToken)
    /\ "tracker_scan_rss_feeds" \in done
           => OwnedEvents(main_events.rss_events, EntryTexts, LongToken)
    /\ "fetch_federal_register_adcomm" \in done
           => OwnedEvents(main_events.fda_events, NoticeTexts, FullName)
    /\ "fetch_openfda_approvals" \in done
           => OwnedEvents(main_events.openfda_events, SponsorTexts, LongToken)

\* of two notices the second names Amgen Inc. (in its abstract), the first no
\* company of the universe: one event, Amgen's
C16_Witness ==
    /\ "fetch_federal_register_adcomm" \in done
    /\ target_companies = <<CoAmgen>>
    /\ Len(NoticeTexts) = 2
    /\ NamingRecords(NoticeTexts, FullName) = {2}
    /\ Len(main_events.fda_events) = 1
    /\ main_events.fda_events[1].company = CoAmgen
    /\ main_events.fda_events[1].title = NoticeTitleWord

(***************************************************************************)
(* C17. In-batch dedup in input order: update_database goes through the    *)
(* candidates in input order, and among the candidates of one batch that   *)
(* share a signature not already in the store (and that the cutoff test    *)
(* lets through) exactly the first in input order is accepted and counted; *)
(* every later one is skipped.  Fails in tracker.py, whose signature holds *)
(* the whole title: two candidates that differ after the 50th character of *)
(* the title are both accepted.                                            *)
(***************************************************************************)
\* candidate k gets as far as the signature test, and the loaded store
\* has no event of its signature
FreshCandidate(k) ==
    /\ (scraper = "label" \/ ~IsStale(new_events[k]))
    /\ \A i \in 1..Len(loaded) : Signature(loaded[i]) # Signature(new_events[k])

C17_InBatchDedup ==
    Called =>
        /\ \A a \in 1..Len(accepted) : \A b \in 1..Len(accepted) :
               a < b => accepted[a] < accepted[b]
        /\ added_count = Len(accepted)
        /\ \A k \in 1..Len(new_events) :
               FreshCandidate(k) =>
                   (k \in Range(accepted)
                        <=> \A m \in 1..(k - 1) :
                                Signature(new_events[m]) # Signature(new_events[k]))

(***************************************************************************)
(* C18. Long-token rule: the any-long-token matcher (match_companies of    *)
(* historical_scraper.py, the sponsor test of fetch_openfda_approvals)     *)
(* matches a company against a text if and only if some whitespace-        *)
(* separated word of the company name with length > 3 occurs, compared     *)
(* case-insensitively, as a substring of the text; a company whose words   *)
(* all have length <= 3 is never matched.                                  *)
(***************************************************************************)
\* an application with a product and an approval dated 2024 or later
HasApproval(result) ==
    /\ Get(result, "products", <<>>) # <<>>
    /\ \E n \in 1..Len(Get(result, "submissions", <<>>)) :
           /\ Get(result.submissions[n], "submission_status", None) = StatusAP
           /\ StrGeq(openfda_formatted_date(
                         Get(result.submissions[n], "submission_status_date", <<>>)),
                     Cutoff)

\* the company has a word longer than 3
HasLongWord(company) == \E n \in 1..Len(Split(company)) : Len(Split(company)[n]) > 3

C18_LongTokenRule ==
    /\ "match_companies" \in done =>
           /\ [k \in 1..Len(matched) |-> matched[k].title]
                  = SelectSeq(HeadlineTexts,
                              LAMBDA text : NamedCompanies(text, LongToken) # {})
           /\ \A k \in 1..Len(matched) :
                  /\ LongToken(matched[k].company, matched[k].title)
                  /\ HasLongWord(matched[k].company)
    /\ "fetch_openfda_approvals" \in done =>
           /\ Len(main_events.openfda_events)
                  = Cardinality({n \in NamingRecords(SponsorTexts, LongToken) :
                                     HasApproval(sources.openfda.results[n])})
           /\ \A k \in 1..Len(main_events.openfda_events) :
                  HasLongWord(main_events.openfda_events[k].company)

\* 'Eli Co' is in the universe and in the headline, word for word, and is
\* not matched; 'Amgen Inc.' is matched by 'amgen' in 'AMGEN wins ...'
C18_Witness ==
    /\ "match_companies" \in done
    /\ target_companies = <<CoShort, CoAmgen>>
    /\ Len(raw_events) = 2
    /\ HeadlineTexts = <<TextPharma, TextAmgen>>
    /\ FullName(CoShort, TextPharma)
    /\ ~FullName(CoAmgen, TextAmgen)
    /\ Len(matched) = 1
    /\ matched[1].company = CoAmgen

(***************************************************************************)
(* C19. Full-name variant: fetch_federal_register_adcomm attributes a      *)
(* notice to a company only if the whole lowercased company name occurs as *)
(* a substring of the lowercased title + ' ' + abstract, and it takes the  *)
(* first such company in universe order; a company of which only one word  *)
(* is in the text is not matched.                                          *)
(***************************************************************************)
\* the notices that name a company in full, by position, in order; an empty
\* name, which is in every text, is no company to attribute a notice to
NamingNotices ==
    SelectSeq([n \in 1..Len(NoticeTexts) |-> n],
              LAMBDA n : /\ NamedCompanies(NoticeTexts[n], FullName) # {}
                         /\ target_companies[Least(NamedCompanies(NoticeTexts[n],
                                                                  FullName))] # <<>>)

C19_FullNameFirst ==
    "fetch_federal_register_adcomm" \in done =>
        /\ Len(main_events.fda_events) = Len(NamingNotices)
        /\ \A k \in 1..Len(main_events.fda_events) :
               /\ main_events.fda_events[k].title
                      = Slice(Get(sources.fedreg.results[NamingNotices[k]], "title", <<>>),
                              200)
               /\ main_events.fda_events[k].company
                      = target_companies[Least(NamedCompanies(NoticeTexts[NamingNotices[k]],
                                                              FullName))]

\* 'Vertex: Notice of Meeting' with the universe ['Vertex Pharmaceuticals',
\* 'Vertex']: the first company has a word in the text and is passed over
C19_Witness ==
    /\ "fetch_federal_register_adcomm" \in done
    /\ target_companies = <<CoVertexPharma, CoVertex>>
    /\ Len(NoticeTexts) = 1
    /\ sources.fedreg.results[1].title = NoticeTitleWord
    /\ LongToken(CoVertexPharma, NoticeTexts[1])
    /\ Len(main_events.fda_events) = 1
    /\ main_events.fda_events[1].company = CoVertex

(***************************************************************************)
(* C20. Canonical stored dates: after any scraper runs, every event in     *)
(* data.json has a date that is a canonical YYYY-MM-DD string or the empty *)
(* sentinel; no adapter puts a raw or partially parsed date string into    *)
(* the store.  Fails: main of sec_edgar_scraper.py stores the fragment     *)
(* extract_pdufa_date hands back when no format parses it.                 *)
(***************************************************************************)
C20_CanonicalDates ==
    \A i \in 1..Len(Store) : DateOf(Store[i]) = <<>> \/ IsIsoDate(DateOf(Store[i]))

(***************************************************************************)
(* C21. Pattern priority: date extraction tries the patterns in list order *)
(* and the result is determined solely by the first pattern that matches   *)
(* the text; once an earlier pattern has matched, no later pattern is      *)
(* consulted, in extract_pdufa_date of sec_edgar_scraper.py and in         *)
(* scan_rss_feeds of tracker.py.  Fails in scan_rss_feeds: the loop only   *)
(* ends on a fragment that parsed, so a later pattern is consulted after   *)
(* an earlier one matched a fragment that does not parse.                  *)
(***************************************************************************)
\* the patterns of the list that match the text
MatchingPatterns(patterns, text) ==
    {n \in 1..Len(patterns) : ReSearch(patterns[n], text, TRUE) # None}

\* the fragment of the first pattern that matches; None if none does
FirstFragment(patterns, text) ==
    LET matching == MatchingPatterns(patterns, text)
    IN IF matching = {} THEN None
       ELSE ReSearch(patterns[CHOOSE n \in matching : \A k \in matching : n <= k],
                     text, TRUE)

\* extract_pdufa_date gave what the first matching pattern captured
C21_SecEdgarPriority ==
    "extract_pdufa_date" \in done =>
        LET date_str == FirstFragment(DATE_PATTERNS, filings[1].text)
        IN pdufa_date = IF date_str = None THEN None ELSE sec_edgar_resolve(date_str)

\* scan_rss_feeds extracted what the first matching pattern captured
C21_TrackerPriority ==
    ("scan_rss_feeds" \in done /\ Truthy(detected_company)) =>
        LET date_str == FirstFragment(date_patterns, rss_content(rss_entry))
        IN extracted_date = IF date_str = None THEN None ELSE rss_resolve(date_str)

C21_PatternPriority == C21_SecEdgarPriority /\ C21_TrackerPriority

(***************************************************************************)
(* C22. Future preference in the RSS adapter: the event date equals the    *)
(* extracted date when a date was extracted from the text and it is not    *)
(* below the fallback date (the entry's publication date, or today when    *)
(* that is absent or does not parse) in string order, and equals the       *)
(* fallback date otherwise; hence the date of an RSS event is never        *)
(* earlier than its fallback date.                                         *)
(***************************************************************************)
\* the entry has gone through the loop and added its event
EntryEmitted == "scan_rss_feeds" \in done /\ rss_events # <<>>

C22_FuturePreference ==
    EntryEmitted =>
        LET fallback_date == rss_fallback_date(rss_entry, now)
            date == rss_events[1].date
        IN /\ Truthy(extracted_date) /\ ~StrLess(extracted_date, fallback_date)
               => date = extracted_date
           /\ ~Truthy(extracted_date) \/ StrLess(extracted_date, fallback_date)
               => date = fallback_date
           /\ ~StrLess(date, fallback_date)

\* a date was extracted that is before the publication date of the entry
C22_Witness ==
    /\ EntryEmitted
    /\ Truthy(extracted_date)
    /\ "published" \in DOMAIN rss_entry
    /\ StrLess(extracted_date, rss_fallback_date(rss_entry, now))
    /\ rss_events[1].date = rss_fallback_date(rss_entry, now)
    /\ rss_events[1].date # strftime_Ymd(now)

(***************************************************************************)
(* C23. Added count matches the store: the count update_database reports   *)
(* is the number of candidates that are in the written store and were not  *)
(* in the loaded store: the size of the written store minus the number of  *)
(* loaded events retained.  Fails: a candidate with an empty or missing    *)
(* date is counted and then dropped by the filter before the write.        *)
(***************************************************************************)
\* the loaded events the filter before the write retains
RetainedLoaded == {i \in 1..Len(loaded) : KeptByCutoff(loaded[i])}

C23_CountMatchesStore ==
    Called => added_count = Len(Store) - Cardinality(RetainedLoaded)

(***************************************************************************)
(* C24. Retention across runs: an event with date >= '2024-01-01' that is  *)
(* in data.json is in the store every later update_database run writes,    *)
(* with all its fields unchanged and as often as before, whichever module  *)
(* runs and whatever its batch; a merge never removes or modifies a        *)
(* retained existing event.                                                *)
(***************************************************************************)
\* how often the list holds the event
Occurrences(s, e) == Cardinality({i \in 1..Len(s) : s[i] = e})

C24_Retention ==
    [][\A i \in 1..Len(Store) :
           StrGeq(Get(Store[i], "date", <<>>), Cutoff)
               => Occurrences(Store', Store[i]) >= Occurrences(Store, Store[i])]_vars

\* a second run that accepted a candidate found the events the first run had
\* added to the store, and wrote them all again
C24_Witness ==
    /\ calls = 2
    /\ Len(loaded) > MaxStore
    /\ accepted # <<>>
    /\ \A i \in 1..Len(loaded) : Occurrences(Store, loaded[i]) = Occurrences(loaded, loaded[i])

(***************************************************************************)
(* C25. The five update_database implementations agree on the store: for   *)
(* any loaded store and any batch in which every event has a string title  *)
(* of at most 50 characters, tracker, clinicaltrials, historical, label    *)
(* and sec_edgar write the same store, the same events in the same order.  *)
(* Fails: tracker.py compares whole titles, so against a loaded event with *)
(* a longer title, or with none, it accepts a candidate the others skip.   *)
(***************************************************************************)
\* every event of the list has a string title of at most 50 characters
ShortTitles(s) ==
    \A i \in 1..Len(s) : "title" \in DOMAIN s[i] /\ s[i].title # None
                             /\ Len(s[i].title) <= SigLen

\* what the module that ran wrote is what each of the five writes
FiveAgree == \A name \in Scrapers : Store = Written(name, loaded, new_events)

C25_FiveAgree == (Called /\ ShortTitles(new_events)) => FiveAgree

(***************************************************************************)
(* C26. No partial updates: if an update_database run fails or is          *)
(* interrupted at any point, data.json holds either exactly the store from *)
(* before the run or exactly the complete new store, never an empty,       *)
(* truncated or partially written collection.  Fails: the file is opened   *)
(* with 'w', which empties it, and written in place.                       *)
(***************************************************************************)
\* data.json holds a list (or is absent, which loads as the empty list)
HoldsStore == FileKind(data_json) \in {"absent", "list"}

C26_NoPartialUpdate ==
    \A p \in 1..Len(runs) :
        runs[p].pc = "interrupted" =>
            /\ HoldsStore
            /\ \/ Load = runs[p].existing_data
               \/ Load = Written(runs[p].name, runs[p].existing_data, runs[p].batch)

(***************************************************************************)
(* C27. The merge does not raise on malformed candidates: with a loaded    *)
(* store that is a well-formed list of events, update_database completes   *)
(* and writes the store for every batch of records, whatever fields        *)
(* (company, date, title) a candidate lacks or carries as empty or null.   *)
(* Fails: a null date raises TypeError in the filter before the write, and *)
(* a null title raises TypeError where the title is sliced.                *)
(***************************************************************************)
\* update_database ended by writing the list it had merged, sorted and filtered
WroteStore ==
    /\ raised = "none"
    /\ data_json = JsonFile(Written(scraper, loaded, new_events))

C27_NoRaise == Called => WroteStore

(***************************************************************************)
(* C28. The label adapter emits recent changes: for a label whose          *)
(* recent_major_changes is a list of change strings or a single string and *)
(* whose resolved date (the first MM/YYYY of the change text as            *)
(* YYYY-MM-01, else the label's effective_time, else today) lies within    *)
(* the last 365 days, extract_label_events returns exactly one             *)
(* 'Label Update' event with that date, the company, the brand name and a  *)
(* details field; for an older resolved date it returns no event.          *)
(* Fails: the event is built with change.get, and change is a str or is    *)
(* not bound, so the try block raises and the bare except drops the event. *)
(***************************************************************************)
\* extract_label_events ran on a label with changes that are strings
LabelRan ==
    /\ "extract_label_events" \in done
    /\ "recent_major_changes" \in DOMAIN label_data
    /\ ~label_join_raises(label_data.recent_major_changes)

\* the date the changes, the effective_time and the clock resolve to
ResolvedDate ==
    label_final_date(label_scan_changes(label_data.recent_major_changes).date,
                     label_display_date(Get(label_data, "effective_time", <<>>), now))

ResolvedRecent ==
    strptime_Ymd(ResolvedDate).ok /\ label_is_recent(strptime_Ymd(ResolvedDate), now)

ResolvedOlder ==
    strptime_Ymd(ResolvedDate).ok /\ ~label_is_recent(strptime_Ymd(ResolvedDate), now)

\* the one event the claim describes
OneLabelUpdate ==
    /\ Len(label_events) = 1
    /\ label_events[1].type = LabelUpdate
    /\ label_events[1].date = ResolvedDate
    /\ label_events[1].company = Vertex
    /\ label_events[1].drug = KeyDrugVertex
    /\ "details" \in DOMAIN label_events[1]

C28_LabelEmits ==
    LabelRan => /\ ResolvedRecent => OneLabelUpdate
                /\ ResolvedOlder => label_events = <<>>

(***************************************************************************)
(* C29. The openFDA adapter emits at most one approval per application:    *)
(* for each application with a matched sponsor and at least one product,   *)
(* fetch_openfda_approvals emits at most one event, the one of the first   *)
(* submission in list order that has status 'AP' and a date not below      *)
(* '2024-01-01'; submissions with another status or with an earlier or     *)
(* empty date are passed over, and no emitted event has a date below       *)
(* '2024-01-01'.                                                           *)
(***************************************************************************)
\* the application records the adapter was sent
OpenfdaResults == IF sources.openfda.outcome = "ok" THEN sources.openfda.results ELSE <<>>

\* the date of a submission as the event carries it: YYYYMMDD with dashes
SubmissionDate(sub) ==
    LET d == Get(sub, "submission_status_date", <<>>)
    IN IF Len(d) = 8
       THEN SubSeq(d, 1, 4) \o <<45>> \o SubSeq(d, 5, 6) \o <<45>> \o SubSeq(d, 7, 8)
       ELSE d

\* the positions of the submissions that are approved and not dated before 2024
Approved(result) ==
    {n \in 1..Len(Get(result, "submissions", <<>>)) :
        /\ Get(result.submissions[n], "submission_status", None) = StatusAP
        /\ StrGeq(SubmissionDate(result.submissions[n]), Cutoff)}

\* the records that have a matched sponsor, a product and such a submission,
\* by position, in order
ApprovedRecords ==
    SelectSeq([n \in 1..Len(OpenfdaResults) |-> n],
              LAMBDA n : /\ n \in NamingRecords(SponsorTexts, LongToken)
                         /\ Get(OpenfdaResults[n], "products", <<>>) # <<>>
                         /\ Approved(OpenfdaResults[n]) # {})

====
